---- MODULE Spec2Model ----
(***************************************************************************)
(* libconutils: the surface tree and its compositor.                       *)
(*                                                                         *)
(* Surfaces are identified by the integers 1..NSurf; the identifier plays  *)
(* the role of the object's address, so a std::set<Surface *> iterates in  *)
(* increasing identifier order.  Null (0) is the null pointer.             *)
(*                                                                         *)
(* Every Surface method is an operator on a "world" record holding the     *)
(* private fields of all surfaces; it returns the world after the call     *)
(* together with the method's return value.  The actions apply these       *)
(* operators to the state variables.  render() recurses through the parent *)
(* links; the model keeps its call stack in the variables stack and pc.    *)
(***************************************************************************)
EXTENDS Integers, Sequences, FiniteSets, TLC

VARIABLES
    mBounds,    \* Surface::mBounds, per surface
    mDirty,     \* Surface::mDirty
    mPos,       \* Surface::mPos
    mVisible,   \* Surface::mVisible
    mParent,    \* Surface::mParent (Null when detached)
    mData,      \* Surface::mData, a function 0..size-1 -> Char
    mLayerMap,  \* Surface::mLayerMap, a function Z -> set of surfaces
    pc,         \* "idle", or where the running render() is: "enter" / "exit"
    stack,      \* the surfaces whose render() is active, innermost last
    ret,        \* return value of the most recent call
    last,       \* the most recent call: its name op; for render(), the surface rsf it
                \* was called on and whether the call before was the same render()
    hookLog,    \* renderDone() invocations of the most recent call
    pending,    \* surfaces changed since render() was last called on them
    acc,        \* cells passed to invalidate(rect) since the dirty region was last cleared
    phase,      \* position of the scenario driver ("free" outside scenarios)
    instance,   \* the static unique_ptr of Screen::getInstance / Keyboard::getInstance
    screen,     \* the private fields of the Screen object
    out,        \* what the most recent Screen call wrote to cout
    stdin,      \* the terminal input: bytes readable now, bytes still to arrive
    kb          \* the running waitForKey() call: where it is and its locals

termVars == <<instance, screen, out, stdin, kb>>
surfVars == <<mBounds, mDirty, mPos, mVisible, mParent, mData, mLayerMap>>
vars == <<mBounds, mDirty, mPos, mVisible, mParent, mData, mLayerMap,
          pc, stack, ret, last, hookLog, pending, acc, phase,
          instance, screen, out, stdin, kb>>

(***************************************************************************)
(* Bounds of the model.                                                    *)
(***************************************************************************)
NSurf == 3
MaxZ == 1
MaxCoord == 3

Null == 0
Surfaces == 1..NSurf
ZRange == 0..MaxZ

(***************************************************************************)
(* Error codes (errno values, returned negated).                           *)
(***************************************************************************)
EINVAL == 22
ENOLINK == 67

(***************************************************************************)
(* Geometry: Point and Rect.                                               *)
(***************************************************************************)
Point(x, y) == [x |-> x, y |-> y]

Rect(tx, ty, bx, by) == [top |-> Point(tx, ty), bottom |-> Point(bx, by)]

\* Rect(): both corners default-constructed to (0, 0).
EmptyRect == Rect(0, 0, 0, 0)

Min(a, b) == IF a < b THEN a ELSE b
Max(a, b) == IF a > b THEN a ELSE b

\* width()/height() return size_t; every use in the modelled code either has
\* a valid rectangle or converts the value back to ssize_t (Rect::move), so
\* the signed difference is what the code computes with.
width(r) == r.bottom.x - r.top.x
height(r) == r.bottom.y - r.top.y
size(r) == width(r) * height(r)

valid(r) == r.bottom.x > r.top.x /\ r.bottom.y > r.top.y

index_for(r, p) == (p.y - r.top.y) * width(r) + (p.x - r.top.x)

point_for(r, index) == Point(r.top.x + (index % width(r)), r.top.y + (index \div width(r)))

\* Variant taking the outer corners instead of the inner ones.
intersect_outer(r1, r2) ==
    [top    |-> Point(Min(r1.top.x, r2.top.x), Min(r1.top.y, r2.top.y)),
     bottom |-> Point(Max(r1.bottom.x, r2.bottom.x), Max(r1.bottom.y, r2.bottom.y))]

intersect(r1, r2) ==
    [top    |-> Point(Max(r1.top.x, r2.top.x), Max(r1.top.y, r2.top.y)),
     bottom |-> Point(Min(r1.bottom.x, r2.bottom.x), Min(r1.bottom.y, r2.bottom.y))]

boundingRect(r1, r2) ==
    [top    |-> Point(Min(r1.top.x, r2.top.x), Min(r1.top.y, r2.top.y)),
     bottom |-> Point(Max(r1.bottom.x, r2.bottom.x), Max(r1.bottom.y, r2.bottom.y))]

Rect_move(r, pos) ==
    [top    |-> pos,
     bottom |-> Point(pos.x + width(r), pos.y + height(r))]

\* The cells of a rectangle (none when it is not valid).
Cells(r) ==
    IF valid(r)
    THEN {Point(x, y) : x \in r.top.x..(r.bottom.x - 1), y \in r.top.y..(r.bottom.y - 1)}
    ELSE {}

(***************************************************************************)
(* Char.                                                                   *)
(***************************************************************************)
white == 7
black == 0
none == 0
transparent == 128

Char(val, fg, bg, attr) == [val |-> val, fg |-> fg, bg |-> bg, attr |-> attr]

\* Char(' '): the default colours and no attributes.
Blank == Char(" ", white, black, none)

\* ch.attr & Char::transparent
IsTransparent(ch) == (ch.attr \div transparent) % 2 = 1

(***************************************************************************)
(* The world: the private fields of every surface.                         *)
(***************************************************************************)
World ==
    [mBounds |-> mBounds, mDirty |-> mDirty, mPos |-> mPos, mVisible |-> mVisible,
     mParent |-> mParent, mData |-> mData, mLayerMap |-> mLayerMap]

Result(W, r) == [w |-> W, ret |-> r]

\* Surface::bounds(): the unclipped bounds in the parent's coordinates.
bounds(W, s) == Rect_move(W.mBounds[s], W.mPos[s])

(***************************************************************************)
(* invalidate, three overloads.                                            *)
(***************************************************************************)
invalidateAll(W, s) == [W EXCEPT !.mDirty[s] = W.mBounds[s]]

\* invalidate(const Rect&) without the accumulation branch.
invalidate_overwrite(W, s, r) ==
    [W EXCEPT !.mDirty[s] = intersect(W.mBounds[s], r)]

invalidate(W, s, r) ==
    IF valid(W.mDirty[s])
    THEN [W EXCEPT !.mDirty[s] = boundingRect(W.mDirty[s], intersect(W.mBounds[s], r))]
    ELSE [W EXCEPT !.mDirty[s] = intersect(W.mBounds[s], r)]

\* invalidate(start, end) that always builds the single-row rectangle.
invalidateRange_onerow(W, s, start, end) ==
    LET start_p == point_for(W.mBounds[s], start)
        end_p   == point_for(W.mBounds[s], end - 1)
    IN  invalidate(W, s, Rect(start_p.x, start_p.y, end_p.x + 1, end_p.y + 1))

invalidateRange(W, s, start, end) ==
    LET start_p == point_for(W.mBounds[s], start)
        end_p   == point_for(W.mBounds[s], end - 1)
        dirty   == IF start_p.y = end_p.y
                   THEN Rect(start_p.x, start_p.y, end_p.x + 1, end_p.y + 1)
                   ELSE Rect(0, start_p.y, width(W.mBounds[s]), end_p.y + 1)
    IN  invalidate(W, s, dirty)

(***************************************************************************)
(* fill, clear, resize.                                                    *)
(***************************************************************************)
\* The buffer after the fill loops: every cell of the surface lying in
\* region holds pattern.  (The source indexes the buffer with
\* mBounds.offset(p), the row-major index that Rect::index_for computes.)
FillCells(W, s, pattern, region) ==
    [i \in DOMAIN W.mData[s] |->
        IF point_for(W.mBounds[s], i) \in Cells(region) THEN pattern ELSE W.mData[s][i]]

fill(W, s, pattern, crop) ==
    IF valid(crop)
    THEN LET dirty == intersect(W.mBounds[s], crop)
         IN  IF ~valid(dirty)
             THEN Result(W, -EINVAL)
             ELSE Result(invalidate([W EXCEPT !.mData[s] = FillCells(W, s, pattern, dirty)],
                                    s, dirty), 0)
    ELSE Result(invalidate([W EXCEPT !.mData[s] = [i \in DOMAIN W.mData[s] |-> pattern]],
                           s, W.mBounds[s]), 0)

clear(W, s, crop) == fill(W, s, Blank, crop)

\* new Char[width * height] default-constructs every cell (Char(' ')); the
\* parent, if any, is invalidated with the bounds before the change.
\* resize() that sets the bounds and keeps the old buffer.
resize_keep(W, s, w, h) ==
    Result(invalidateAll([W EXCEPT !.mBounds[s] = Rect(0, 0, w, h)], s), 0)

resize(W, s, w, h) ==
    LET W1 == [W EXCEPT !.mData[s] = [i \in 0..(w * h - 1) |-> Blank]]
        W2 == IF W1.mParent[s] # Null
              THEN invalidate(W1, W1.mParent[s], bounds(W1, s))
              ELSE W1
        W3 == [W2 EXCEPT !.mBounds[s] = Rect(0, 0, w, h)]
    IN  Result(clear(W3, s, EmptyRect).w, 0)

(***************************************************************************)
(* blend.                                                                  *)
(***************************************************************************)
\* Iterations k, k+1, ... of the copy loops (y outer, x inner, k = y * dst_w + x).
\* The source cell is read from the buffer as it is at that iteration.
RECURSIVE BlendLoop(_, _, _, _, _, _)
BlendLoop(W, s, other, s_crop, d_crop, k) ==
    IF k >= width(d_crop) * height(d_crop)
    THEN W
    ELSE LET x      == k % width(d_crop)
             y      == k \div width(d_crop)
             src_p  == Point(s_crop.top.x + x, s_crop.top.y + y)
             dst_p  == Point(d_crop.top.x + x, d_crop.top.y + y)
             src_ch == W.mData[other][index_for(W.mBounds[other], src_p)]
             W1     == IF ~IsTransparent(src_ch)
                       THEN [W EXCEPT !.mData[s][index_for(W.mBounds[s], dst_p)] = src_ch]
                       ELSE W
         IN  BlendLoop(W1, s, other, s_crop, d_crop, k + 1)

\* blend() that copies every source cell, transparent or not.
blend_copyall(W, s, other, src_crop, pos) ==
    LET s_crop == intersect(W.mBounds[other], src_crop)
        d_crop == intersect(W.mBounds[s], Rect_move(s_crop, pos))
        Src(p) == Point(s_crop.top.x + (p.x - d_crop.top.x), s_crop.top.y + (p.y - d_crop.top.y))
        data   == [i \in DOMAIN W.mData[s] |->
                      LET p == point_for(W.mBounds[s], i)
                      IN  IF p \in Cells(d_crop)
                          THEN W.mData[other][index_for(W.mBounds[other], Src(p))]
                          ELSE W.mData[s][i]]
    IN  IF ~valid(s_crop) \/ ~valid(d_crop)
        THEN Result(W, -EINVAL)
        ELSE Result(invalidate([W EXCEPT !.mData[s] = data], s, d_crop), 0)

blend(W, s, other, src_crop, pos) ==
    LET s_crop == intersect(W.mBounds[other], src_crop)
        d_crop == intersect(W.mBounds[s], Rect_move(s_crop, pos))
    IN  IF ~valid(s_crop) \/ ~valid(d_crop)
        THEN Result(W, -EINVAL)
        ELSE Result(invalidate(BlendLoop(W, s, other, s_crop, d_crop, 0), s, d_crop), 0)

(***************************************************************************)
(* Layers: addLayer, removeLayer, moveLayer, containsLayer.                *)
(***************************************************************************)
\* mLayerMap[Z].insert(sf), creating the bucket when it is missing.
LayerInsert(m, Z, sf) ==
    IF Z \in DOMAIN m
    THEN [m EXCEPT ![Z] = m[Z] \cup {sf}]
    ELSE (Z :> {sf}) @@ m

\* Mutant: an emptied bucket stays in the map.
LayerErase_keep(m, Z, sf) == [m EXCEPT ![Z] = m[Z] \ {sf}]

\* layer.erase(sf) in bucket Z, and mLayerMap.erase(Z) when that empties it.
LayerErase(m, Z, sf) ==
    IF m[Z] \ {sf} = {}
    THEN [z \in DOMAIN m \ {Z} |-> m[z]]
    ELSE [m EXCEPT ![Z] = m[Z] \ {sf}]

\* The buckets holding sf; the loops stop at the first (lowest Z) of them.
BucketsOf(m, sf) == {z \in DOMAIN m : sf \in m[z]}

SetMin(S) == CHOOSE x \in S : \A y \in S : x <= y

\* Mutant: the test for an existing parent is missing.
addLayer_nocheck(W, self, sf, Z) ==
    LET W1 == [W EXCEPT !.mLayerMap[self] = LayerInsert(W.mLayerMap[self], Z, sf)]
        W2 == invalidate(W1, self, bounds(W1, sf))
    IN  Result([W2 EXCEPT !.mParent[sf] = self], 0)

addLayer(W, self, sf, Z) ==
    IF W.mParent[sf] # Null
    THEN Result(W, -EINVAL)
    ELSE LET W1 == [W EXCEPT !.mLayerMap[self] = LayerInsert(W.mLayerMap[self], Z, sf)]
             W2 == invalidate(W1, self, bounds(W1, sf))
         IN  Result([W2 EXCEPT !.mParent[sf] = self], 0)

\* Mutant: the surface is positioned before the test for an existing parent.
addLayerPos_posfirst(W, self, sf, pos, Z) ==
    LET W0 == [W EXCEPT !.mPos[sf] = pos]
    IN  IF W.mParent[sf] # Null
        THEN Result(W0, -EINVAL)
        ELSE LET W1 == [W0 EXCEPT !.mLayerMap[self] = LayerInsert(W0.mLayerMap[self], Z, sf)]
                 W2 == invalidate(W1, self, bounds(W1, sf))
             IN  Result([W2 EXCEPT !.mParent[sf] = self], 0)

addLayerPos(W, self, sf, pos, Z) ==
    IF W.mParent[sf] # Null
    THEN Result(W, -EINVAL)
    ELSE LET W0 == [W EXCEPT !.mPos[sf] = pos]
             W1 == [W0 EXCEPT !.mLayerMap[self] = LayerInsert(W0.mLayerMap[self], Z, sf)]
             W2 == invalidate(W1, self, bounds(W1, sf))
         IN  Result([W2 EXCEPT !.mParent[sf] = self], 0)

removeLayer(W, self, sf) ==
    IF W.mParent[sf] # self
    THEN Result(W, -EINVAL)
    ELSE IF BucketsOf(W.mLayerMap[self], sf) = {}
    THEN Result(W, -EINVAL)
    ELSE LET Z  == SetMin(BucketsOf(W.mLayerMap[self], sf))
             W1 == [W EXCEPT !.mLayerMap[self] = LayerErase(W.mLayerMap[self], Z, sf)]
             W2 == invalidate(W1, self, bounds(W1, sf))
         IN  Result([W2 EXCEPT !.mParent[sf] = Null], 0)

\* moveLayer() that inserts into bucket Z before it erases from the old one.
moveLayer_erase_last(W, self, sf, Z) ==
    IF W.mParent[sf] # self
    THEN Result(W, -EINVAL)
    ELSE IF BucketsOf(W.mLayerMap[self], sf) = {}
    THEN Result(W, -EINVAL)
    ELSE LET old_z == SetMin(BucketsOf(W.mLayerMap[self], sf))
             m1    == LayerInsert(W.mLayerMap[self], Z, sf)
             W1    == [W EXCEPT !.mLayerMap[self] = LayerErase(m1, old_z, sf)]
         IN  Result(invalidate(W1, self, bounds(W1, sf)), 0)

\* moveLayer() that puts sf into bucket Z without asking whose layer it is.
moveLayer_insert(W, self, sf, Z) ==
    Result([W EXCEPT !.mLayerMap[self] = LayerInsert(W.mLayerMap[self], Z, sf)], 0)

moveLayer(W, self, sf, Z) ==
    IF W.mParent[sf] # self
    THEN Result(W, -EINVAL)
    ELSE IF BucketsOf(W.mLayerMap[self], sf) = {}
    THEN Result(W, -EINVAL)
    ELSE LET old_z == SetMin(BucketsOf(W.mLayerMap[self], sf))
             m1    == LayerErase(W.mLayerMap[self], old_z, sf)
             W1    == [W EXCEPT !.mLayerMap[self] = LayerInsert(m1, Z, sf)]
         IN  Result(invalidate(W1, self, bounds(W1, sf)), 0)

containsLayer(W, self, sf) == \E z \in DOMAIN W.mLayerMap[self] : sf \in W.mLayerMap[self][z]

(***************************************************************************)
(* show, hide, move, moveZ.                                                *)
(***************************************************************************)
show(W, s) == [invalidateAll(W, s) EXCEPT !.mVisible[s] = TRUE]

\* hide() without the invalidation of the parent.
hide_noparent(W, s) ==
    IF W.mParent[s] # Null
    THEN [invalidateAll(W, s) EXCEPT !.mVisible[s] = FALSE]
    ELSE [W EXCEPT !.mVisible[s] = FALSE]

hide(W, s) ==
    LET W1 == IF W.mParent[s] # Null
              THEN LET Wa == invalidateAll(W, s)
                   IN  invalidate(Wa, Wa.mParent[s], bounds(Wa, s))
              ELSE W
    IN  [W1 EXCEPT !.mVisible[s] = FALSE]

\* move() that only stores the new position.
move_noparent(W, s, pos) == Result([W EXCEPT !.mPos[s] = pos], 0)

move(W, s, pos) ==
    LET W1 == IF W.mParent[s] # Null
              THEN LET Wa == invalidateAll(W, s)
                   IN  invalidate(Wa, Wa.mParent[s], bounds(Wa, s))
              ELSE W
    IN  Result([W1 EXCEPT !.mPos[s] = pos], 0)

\* move(pos, Z): the result of moveLayer is dropped, the call returns 0.
movePosZ(W, s, pos, Z) ==
    LET W1 == IF W.mParent[s] # Null
              THEN LET Wa == invalidateAll(W, s)
                       Wb == invalidate(Wa, Wa.mParent[s], bounds(Wa, s))
                   IN  moveLayer(Wb, Wb.mParent[s], s, Z).w
              ELSE W
    IN  Result([W1 EXCEPT !.mPos[s] = pos], 0)

moveZ(W, s, Z) ==
    IF W.mParent[s] # Null
    THEN moveLayer(invalidateAll(W, s), W.mParent[s], s, Z)
    ELSE Result(W, -ENOLINK)

(***************************************************************************)
(* render.                                                                 *)
(***************************************************************************)
RECURSIVE SortedSeq(_)
SortedSeq(S) == IF S = {} THEN <<>> ELSE <<SetMin(S)>> \o SortedSeq(S \ {SetMin(S)})

RECURSIVE Flatten(_, _)
Flatten(m, zs) ==
    IF zs = <<>> THEN <<>> ELSE SortedSeq(m[Head(zs)]) \o Flatten(m, Tail(zs))

\* The order in which the two loops of render() visit the layers: buckets
\* by increasing Z, the surfaces of a bucket by increasing address.
\* The layers from the highest Z to the lowest.
LayerSeq_desc(W, s) ==
    LET seq == Flatten(W.mLayerMap[s], SortedSeq(DOMAIN W.mLayerMap[s]))
    IN  [i \in 1..Len(seq) |-> seq[Len(seq) + 1 - i]]

LayerSeq(W, s) == Flatten(W.mLayerMap[s], SortedSeq(DOMAIN W.mLayerMap[s]))

\* sf->mDirty taken as it is, in the layer's own coordinates.
DirtyInParent_nomove(W, sf) == W.mDirty[sf]

\* sf->mDirty moved by sf->mPos.
DirtyInParent(W, sf) ==
    Rect(W.mDirty[sf].top.x + W.mPos[sf].x, W.mDirty[sf].top.y + W.mPos[sf].y,
         W.mDirty[sf].bottom.x + W.mPos[sf].x, W.mDirty[sf].bottom.y + W.mPos[sf].y)

\* First loop, taking the hidden layers as well.
RECURSIVE FoldLayers_hidden(_, _, _)
FoldLayers_hidden(W, s, seq) ==
    IF seq = <<>>
    THEN W
    ELSE LET sf == Head(seq)
             W1 == IF valid(W.mDirty[sf])
                   THEN invalidate(W, s, DirtyInParent(W, sf))
                   ELSE W
         IN  FoldLayers_hidden(W1, s, Tail(seq))

\* First loop: the combined dirty region from all layers.
RECURSIVE FoldLayers(_, _, _)
FoldLayers(W, s, seq) ==
    IF seq = <<>>
    THEN W
    ELSE LET sf == Head(seq)
             W1 == IF W.mVisible[sf] /\ valid(W.mDirty[sf])
                   THEN invalidate(W, s, DirtyInParent(W, sf))
                   ELSE W
         IN  FoldLayers(W1, s, Tail(seq))

\* Second loop: blend the layers onto this surface and mark them clean.
RECURSIVE BlendLayers(_, _, _)
BlendLayers(W, s, seq) ==
    IF seq = <<>>
    THEN W
    ELSE LET sf == Head(seq)
             W1 == IF W.mVisible[sf] /\ valid(W.mBounds[sf])
                   THEN LET crop     == intersect(W.mDirty[s], bounds(W, sf))
                            pos      == crop.top
                            src_crop == Rect(crop.top.x - W.mPos[sf].x,
                                             crop.top.y - W.mPos[sf].y,
                                             crop.bottom.x - W.mPos[sf].x,
                                             crop.bottom.y - W.mPos[sf].y)
                            Wb       == blend(W, s, sf, src_crop, pos).w
                        IN  [Wb EXCEPT !.mDirty[sf] = EmptyRect]
                   ELSE W
         IN  BlendLayers(W1, s, Tail(seq))

\* render() that does not look at the layers' dirty rectangles.
renderFold_none(W, s) == W

\* render() up to the test "nothing to update here".
renderFold(W, s) == FoldLayers(W, s, LayerSeq(W, s))

\* render() from there to the call of the parent's render().
renderCompose(W, s) ==
    LET W1 == IF DOMAIN W.mLayerMap[s] # {} THEN clear(W, s, W.mDirty[s]).w ELSE W
    IN  BlendLayers(W1, s, LayerSeq(W1, s))

\* render() after the parent's render() has returned: renderDone(mDirty),
\* then the surface is marked clean.
renderHook(W, s) == [sf |-> s, dirty |-> W.mDirty[s]]

renderClean(W, s) == [W EXCEPT !.mDirty[s] = EmptyRect]

(***************************************************************************)
(* Construction.                                                           *)
(***************************************************************************)
\* Surface(): the in-class initialisers of every field.
NewWorld ==
    [mBounds   |-> [s \in Surfaces |-> EmptyRect],
     mDirty    |-> [s \in Surfaces |-> EmptyRect],
     mPos      |-> [s \in Surfaces |-> Point(0, 0)],
     mVisible  |-> [s \in Surfaces |-> TRUE],
     mParent   |-> [s \in Surfaces |-> Null],
     mData     |-> [s \in Surfaces |-> <<>>],
     mLayerMap |-> [s \in Surfaces |-> <<>>]]

\* Surface(width, height) for every surface, sizes[s] = <<width, height>>.
RECURSIVE Construct(_, _, _)
Construct(W, sizes, s) ==
    IF s > NSurf
    THEN W
    ELSE Construct(resize(W, s, sizes[s][1], sizes[s][2]).w, sizes, s + 1)

(***************************************************************************)
(* The terminal side before Screen::getInstance() and                      *)
(* Keyboard::getInstance() have been called: no instance, nothing written,  *)
(* nothing to read, no call running.                                       *)
(***************************************************************************)
\* An empty unique_ptr: a null pointer and no object.
NoObject == [ptr |-> Null, init |-> {}]

NoInstance == [Screen |-> NoObject, Keyboard |-> NoObject]

\* Screen's in-class initialisers; mBounds and mCurrentAttr are default
\* constructed (Rect(), Char()).
NewScreen ==
    [mBounds |-> EmptyRect, mCurrentAttr |-> Blank, mCursorVisible |-> TRUE, mWinchFd |-> -1]

NoInput == [buf |-> <<>>, later |-> <<>>]

KbIdle ==
    [pc |-> "idle", site |-> "none", timeout |-> -1, params |-> <<>>, p |-> 0, read |-> <<>>]

NoTerminal ==
    /\ instance = NoInstance
    /\ screen = NewScreen
    /\ out = <<>>
    /\ stdin = NoInput
    /\ kb = KbIdle

(***************************************************************************)
(* Actions: one per public method.  A call is made only while no render()  *)
(* is running (the library is single-threaded and synchronous).            *)
(***************************************************************************)
SetWorld(W) ==
    /\ mBounds' = W.mBounds
    /\ mDirty' = W.mDirty
    /\ mPos' = W.mPos
    /\ mVisible' = W.mVisible
    /\ mParent' = W.mParent
    /\ mData' = W.mData
    /\ mLayerMap' = W.mLayerMap

Call(op, self, sf, r) ==
    /\ pc = "idle"
    /\ SetWorld(r.w)
    /\ ret' = r.ret
    /\ last' = [op |-> op, rsf |-> Null, rep |-> FALSE]
    /\ hookLog' = <<>>
    /\ UNCHANGED <<pc, stack>>
    /\ UNCHANGED termVars

InvalidateAll(s) == Call("invalidateAll", s, Null, Result(invalidateAll(World, s), 0))

Invalidate(s, r) == Call("invalidate", s, Null, Result(invalidate(World, s, r), 0))

InvalidateRange(s, start, end) ==
    /\ width(mBounds[s]) > 0
    /\ 0 <= start /\ start < end /\ end <= size(mBounds[s])
    /\ Call("invalidateRange", s, Null, Result(invalidateRange(World, s, start, end), 0))

Resize(s, w, h) == Call("resize", s, Null, resize(World, s, w, h))

Fill(s, pattern, crop) == Call("fill", s, Null, fill(World, s, pattern, crop))

Clear(s, crop) == Call("clear", s, Null, clear(World, s, crop))

Blend(s, other, src_crop, pos) == Call("blend", s, other, blend(World, s, other, src_crop, pos))

AddLayer(self, sf, Z) == Call("addLayer", self, sf, addLayer(World, self, sf, Z))

AddLayerPos(self, sf, pos, Z) == Call("addLayerPos", self, sf, addLayerPos(World, self, sf, pos, Z))

RemoveLayer(self, sf) == Call("removeLayer", self, sf, removeLayer(World, self, sf))

MoveLayer(self, sf, Z) == Call("moveLayer", self, sf, moveLayer(World, self, sf, Z))

Show(s) == Call("show", s, Null, Result(show(World, s), 0))

Hide(s) == Call("hide", s, Null, Result(hide(World, s), 0))

Move(s, pos) == Call("move", s, Null, move(World, s, pos))

MovePosZ(s, pos, Z) == Call("movePosZ", s, Null, movePosZ(World, s, pos, Z))

MoveZ(s, Z) == Call("moveZ", s, Null, moveZ(World, s, Z))

(***************************************************************************)
(* render(): the call, and the three places where a running render() is.   *)
(***************************************************************************)
Top == stack[Len(stack)]

Pop ==
    /\ stack' = SubSeq(stack, 1, Len(stack) - 1)
    /\ pc' = IF Len(stack) = 1 THEN "idle" ELSE "exit"

Render(s) ==
    /\ pc = "idle"
    /\ stack' = <<s>>
    /\ pc' = "enter"
    /\ ret' = 0
    /\ last' = [op |-> "render", rsf |-> s, rep |-> (last.rsf = s)]
    /\ hookLog' = <<>>
    /\ UNCHANGED surfVars
    /\ UNCHANGED termVars

\* Nothing to update here: return to the caller.
RenderNothing ==
    /\ pc = "enter"
    /\ ~valid(renderFold(World, Top).mDirty[Top])
    /\ SetWorld(renderFold(World, Top))
    /\ Pop
    /\ UNCHANGED <<ret, last, hookLog>>
    /\ UNCHANGED termVars

\* Compose the layers, then continue upwards in the hierarchy if any.
RenderCompose ==
    /\ pc = "enter"
    /\ valid(renderFold(World, Top).mDirty[Top])
    /\ SetWorld(renderCompose(renderFold(World, Top), Top))
    /\ IF mParent[Top] # Null
       THEN stack' = Append(stack, mParent[Top]) /\ pc' = "enter"
       ELSE stack' = stack /\ pc' = "exit"
    /\ UNCHANGED <<ret, last, hookLog>>
    /\ UNCHANGED termVars

\* renderDone(mDirty), mark the surface clean, return.
RenderDone ==
    /\ pc = "exit"
    /\ hookLog' = Append(hookLog, renderHook(World, Top))
    /\ SetWorld(renderClean(World, Top))
    /\ Pop
    /\ UNCHANGED <<ret, last>>
    /\ UNCHANGED termVars

RenderStep == RenderNothing \/ RenderCompose \/ RenderDone

(***************************************************************************)
(* SpecTree: the layer operations with arbitrary arguments.                *)
(* Three detached surfaces of sizes 2x1, 1x1 and 1x1; the first has been   *)
(* rendered once and is clean, the others are as constructed (dirty).      *)
(* Every surface may be passed to every operation, also as its own layer.  *)
(***************************************************************************)
TreeSizes == <<(<<2, 1>>), (<<1, 1>>), (<<1, 1>>)>> @@ [s \in Surfaces |-> <<1, 1>>]

TreePos == {Point(1, 0)}

\* render() on a detached surface without layers: the two loops do nothing,
\* the surface is marked clean.
RenderedAlone(W, s) == renderClean(renderCompose(renderFold(W, s), s), s)

NoCall == [op |-> "none", rsf |-> Null, rep |-> FALSE]

InitWith(W) ==
    /\ mBounds = W.mBounds
    /\ mDirty = W.mDirty
    /\ mPos = W.mPos
    /\ mVisible = W.mVisible
    /\ mParent = W.mParent
    /\ mData = W.mData
    /\ mLayerMap = W.mLayerMap
    /\ pc = "idle"
    /\ stack = <<>>
    /\ ret = 0
    /\ last = NoCall
    /\ hookLog = <<>>
    /\ pending = {}
    /\ acc = {}
    /\ phase = "free"
    /\ NoTerminal

InitTree == InitWith(RenderedAlone(Construct(NewWorld, TreeSizes, 1), 1))

\* The variables that only other specifications use.
Free == UNCHANGED <<pending, acc, phase>>

TreeAddLayer ==
    /\ \E self \in Surfaces, sf \in Surfaces, Z \in ZRange : AddLayer(self, sf, Z)
    /\ Free

TreeAddLayerPos ==
    /\ \E self \in Surfaces, sf \in Surfaces, pos \in TreePos, Z \in ZRange :
          AddLayerPos(self, sf, pos, Z)
    /\ Free

TreeRemoveLayer ==
    /\ \E self \in Surfaces, sf \in Surfaces : RemoveLayer(self, sf)
    /\ Free

TreeMoveLayer ==
    /\ \E self \in Surfaces, sf \in Surfaces, Z \in ZRange : MoveLayer(self, sf, Z)
    /\ Free

TreeMovePosZ ==
    /\ \E s \in Surfaces, pos \in TreePos, Z \in ZRange : MovePosZ(s, pos, Z)
    /\ Free

TreeMoveZ ==
    /\ \E s \in Surfaces, Z \in ZRange : MoveZ(s, Z)
    /\ Free

NextTree ==
    \/ TreeAddLayer
    \/ TreeAddLayerPos
    \/ TreeRemoveLayer
    \/ TreeMoveLayer
    \/ TreeMovePosZ
    \/ TreeMoveZ

SpecTree == InitTree /\ [][NextTree]_vars

(***************************************************************************)
(* Spec: the compositor.  Surface 1 is the root of the tree: it only holds *)
(* layers.  Surface 2 is a leaf: it holds content, is never given layers,  *)
(* and may be a layer of the root.  (The remaining surfaces are not used.) *)
(***************************************************************************)
Root == 1
Leaf == 2
Containers == {Root}
Leaves == {Leaf}
CompSurfaces == Containers \cup Leaves

CompSizes == <<(<<2, 1>>), (<<1, 1>>)>> @@ [s \in Surfaces |-> <<1, 1>>]
CompPos == {Point(0, 0), Point(1, 0)}
LeafSizes == {<<0, 0>>, <<1, 1>>}
CharA == Char("a", white, black, none)
CompRect == Rect(0, 0, 1, 1)

\* A call on surface s changes s and, through the invalidation of the
\* parent, the surface s is a layer of.
Touch(S) ==
    /\ pending' = (pending \cup S \cup {mParent[s] : s \in S}) \ {Null}
    /\ UNCHANGED <<acc, phase>>

InitComp == InitWith(Construct(NewWorld, CompSizes, 1))

CompInvalidateAll == \E s \in CompSurfaces : InvalidateAll(s) /\ Touch({s})

CompInvalidate == \E s \in CompSurfaces : Invalidate(s, CompRect) /\ Touch({s})

CompInvalidateRange == \E s \in Leaves : InvalidateRange(s, 0, 1) /\ Touch({s})

CompResize == \E s \in Leaves, sz \in LeafSizes : Resize(s, sz[1], sz[2]) /\ Touch({s})

CompFill == \E s \in Leaves, crop \in {EmptyRect, CompRect} : Fill(s, CharA, crop) /\ Touch({s})

CompClear == \E s \in Leaves : Clear(s, EmptyRect) /\ Touch({s})

CompBlend == \E s \in Leaves : Blend(s, Root, CompRect, Point(0, 0)) /\ Touch({s})

CompAddLayer ==
    \E self \in Containers, Z \in ZRange , sf \in Leaves :
        AddLayer(self, sf, Z) /\ Touch({self, sf})

CompAddLayerPos ==
    \E self \in Containers, pos \in CompPos, Z \in ZRange , sf \in Leaves :
        AddLayerPos(self, sf, pos, Z) /\ Touch({self, sf})

CompRemoveLayer ==
    \E self \in Containers , sf \in Leaves :
        RemoveLayer(self, sf) /\ Touch({self, sf})

CompMoveLayer ==
    \E self \in Containers, Z \in ZRange , sf \in Leaves :
        MoveLayer(self, sf, Z) /\ Touch({self, sf})

CompShow == \E s \in Leaves : Show(s) /\ Touch({s})

CompHide == \E s \in Leaves : Hide(s) /\ Touch({s})

CompMove == \E s \in Leaves, pos \in CompPos : Move(s, pos) /\ Touch({s})

CompMovePosZ == \E s \in Leaves, pos \in CompPos, Z \in ZRange : MovePosZ(s, pos, Z) /\ Touch({s})

CompMoveZ == \E s \in Leaves, Z \in ZRange : MoveZ(s, Z) /\ Touch({s})

CompRender ==
    \E s \in CompSurfaces :
        /\ Render(s)
        /\ pending' = pending \ {s}
        /\ UNCHANGED <<acc, phase>>

CompRenderNothing == RenderNothing /\ Free

CompRenderCompose == RenderCompose /\ Free

CompRenderDone == RenderDone /\ Free

Next ==
    \/ CompInvalidateAll
    \/ CompInvalidate
    \/ CompInvalidateRange
    \/ CompResize
    \/ CompFill
    \/ CompClear
    \/ CompBlend
    \/ CompAddLayer
    \/ CompAddLayerPos
    \/ CompRemoveLayer
    \/ CompMoveLayer
    \/ CompShow
    \/ CompHide
    \/ CompMove
    \/ CompMovePosZ
    \/ CompMoveZ
    \/ CompRender
    \/ CompRenderNothing
    \/ CompRenderCompose
    \/ CompRenderDone

Spec == InitComp /\ [][Next]_vars

(***************************************************************************)
(* C1.  Incremental render equals full composite: whenever no call is      *)
(* running and render() has been called on every surface since it was last *)
(* changed, every cell of the root's buffer equals the cell obtained by    *)
(* compositing the tree from scratch: on a blank background, the visible   *)
(* layers in render order (lowest Z first), transparent cells skipped; a   *)
(* leaf contributes its own buffer.                                        *)
(***************************************************************************)
RECURSIVE CompositeCell(_, _, _, _)
CompositeCell(W, s, p, depth) ==
    IF s \in Leaves \/ depth = 0
    THEN W.mData[s][index_for(W.mBounds[s], p)]
    ELSE LET seq   == LayerSeq(W, s)
             Local(c) == Point(p.x - W.mPos[c].x, p.y - W.mPos[c].y)
             shown == {i \in DOMAIN seq :
                          /\ W.mVisible[seq[i]]
                          /\ p \in Cells(bounds(W, seq[i]))
                          /\ ~IsTransparent(CompositeCell(W, seq[i], Local(seq[i]), depth - 1))}
         IN  IF shown = {}
             THEN Blank
             ELSE LET top == CHOOSE i \in shown : \A j \in shown : j <= i
                  IN  CompositeCell(W, seq[top], Local(seq[top]), depth - 1)

C1_IncrementalEqualsFull ==
    (pc = "idle" /\ pending = {}) =>
        \A p \in Cells(mBounds[Root]) :
            mData[Root][index_for(mBounds[Root], p)] = CompositeCell(World, Root, p, NSurf)

(***************************************************************************)
(* C4.  Dirty is bounded: in every reachable state the dirty rectangle of  *)
(* every surface is either not valid or contained in the surface's bounds. *)
(***************************************************************************)
C4_DirtyBounded ==
    \A s \in Surfaces : valid(mDirty[s]) => Cells(mDirty[s]) \subseteq Cells(mBounds[s])

(***************************************************************************)
(* C6.  Render idempotence: when render() is called on a surface right     *)
(* after a render() on the same surface, the second call finds nothing to  *)
(* update: it returns at the first test, changes no field of any surface   *)
(* and invokes no renderDone().                                            *)
(***************************************************************************)
C6_RenderIdempotent ==
    (pc = "enter" /\ Len(stack) = 1 /\ last.rep) =>
        /\ ~valid(renderFold(World, Top).mDirty[Top])
        /\ renderFold(World, Top) = World

(***************************************************************************)
(* C2.  Parent/child biconditional: in every reachable state, whatever     *)
(* layer operations were called and whether they failed or not, a surface  *)
(* s is in a bucket of surface p exactly when s.mParent = p; so s is a     *)
(* layer of at most one surface.                                           *)
(***************************************************************************)
C2_ParentChildBiconditional ==
    \A s \in Surfaces :
        /\ \A p \in Surfaces : containsLayer(World, p, s) <=> (mParent[s] = p)
        /\ Cardinality({p \in Surfaces : containsLayer(World, p, s)}) <= 1

\* A layer operation has just failed while some surface is attached.
C2_Witness ==
    /\ ret = -EINVAL
    /\ \E s \in Surfaces : mParent[s] # Null /\ containsLayer(World, mParent[s], s)

(***************************************************************************)
(* C3.  Acyclicity: no surface is its own ancestor along the mParent       *)
(* links, whatever arguments addLayer and removeLayer were called with.    *)
(***************************************************************************)
RECURSIVE Ancestors(_, _, _)
Ancestors(W, s, n) ==
    IF n = 0 \/ W.mParent[s] = Null
    THEN {}
    ELSE {W.mParent[s]} \cup Ancestors(W, W.mParent[s], n - 1)

C3_Acyclic == \A s \in Surfaces : s \notin Ancestors(World, s, NSurf)

(***************************************************************************)
(* C7.  From every reachable state, addLayer, either overload, called on   *)
(* any surface with a surface that already has a parent returns -EINVAL    *)
(* and changes no field of any surface: parent links, buckets, positions   *)
(* and dirty regions are as they were.                                     *)
(***************************************************************************)
C7_AddAttachedFails ==
    \A sf \in Surfaces :
        mParent[sf] # Null =>
            \A self \in Surfaces, pos \in TreePos, Z \in ZRange :
                /\ addLayer(World, self, sf, Z).ret = -EINVAL
                /\ addLayer(World, self, sf, Z).w = World
                /\ addLayerPos(World, self, sf, pos, Z).ret = -EINVAL
                /\ addLayerPos(World, self, sf, pos, Z).w = World

\* addLayer(sf, pos, Z) has just failed on a surface whose position is not pos.
C7_Witness ==
    /\ last.op = "addLayerPos"
    /\ ret = -EINVAL
    /\ \E sf \in Surfaces : mParent[sf] # Null /\ mPos[sf] \notin TreePos

(***************************************************************************)
(* C8.  Attach/detach round trip: from every reachable state, for every    *)
(* surface p, detached surface c and Z, p.addLayer(c, Z) followed by       *)
(* p.removeLayer(c) both succeed and leave c without parent, c in no       *)
(* bucket of p, and the buckets of p as they were before the addLayer.     *)
(***************************************************************************)
C8_AddRemoveRoundTrip ==
    \A p \in Surfaces, c \in Surfaces, Z \in ZRange :
        mParent[c] = Null =>
            LET added   == addLayer(World, p, c, Z)
                removed == removeLayer(added.w, p, c)
            IN  /\ added.ret = 0
                /\ removed.ret = 0
                /\ removed.w.mParent[c] = Null
                /\ ~containsLayer(removed.w, p, c)
                /\ removed.w.mLayerMap[p] = mLayerMap[p]

\* A removeLayer has just succeeded (the surface had been added before, all
\* surfaces being detached initially) and left a detached surface, while the
\* parent still holds another layer.
C8_Witness ==
    /\ last.op = "removeLayer"
    /\ ret = 0
    /\ \E p \in Surfaces, c \in Surfaces :
          mParent[c] = Null /\ DOMAIN mLayerMap[p] # {} /\ ~containsLayer(World, p, c)

(***************************************************************************)
(* SpecInvalidate: one detached surface without layers, MaxCoord cells     *)
(* wide and InvHeight high, as constructed.  The three invalidate          *)
(* overloads are called with arbitrary rectangles (also not valid, partly  *)
(* or wholly outside the bounds) and ranges; render() clears the dirty     *)
(* rectangle.  acc holds the cells invalidated since the dirty rectangle   *)
(* was last cleared by render().                                           *)
(***************************************************************************)
InvHeight == 2
InvSizes == <<(<<MaxCoord, InvHeight>>)>> @@ [s \in Surfaces |-> <<1, 1>>]
InvRects ==
    {Rect(tx, ty, bx, by) : tx \in -1..(MaxCoord + 1), bx \in -1..(MaxCoord + 1),
                            ty \in -1..(InvHeight + 1), by \in -1..(InvHeight + 1)}

InitInvalidate == InitWith(Construct(NewWorld, InvSizes, 1))

Accumulate(cells) ==
    /\ acc' = acc \cup cells
    /\ UNCHANGED <<pending, phase>>

InvInvalidateAll == InvalidateAll(Root) /\ Accumulate(Cells(mBounds[Root]))

InvInvalidate ==
    \E r \in InvRects :
        Invalidate(Root, r) /\ Accumulate(Cells(r) \cap Cells(mBounds[Root]))

InvInvalidateRange ==
    \E start \in 0..size(mBounds[Root]), end \in 0..size(mBounds[Root]) :
        /\ InvalidateRange(Root, start, end)
        /\ Accumulate({point_for(mBounds[Root], i) : i \in start..(end - 1)})

InvRender == Render(Root) /\ Free

InvRenderNothing == RenderNothing /\ Free

InvRenderCompose == RenderCompose /\ Free

InvRenderDone ==
    /\ RenderDone
    /\ acc' = {}
    /\ UNCHANGED <<pending, phase>>

NextInvalidate ==
    \/ InvInvalidateAll
    \/ InvInvalidate
    \/ InvInvalidateRange
    \/ InvRender
    \/ InvRenderNothing
    \/ InvRenderCompose
    \/ InvRenderDone

SpecInvalidate == InitInvalidate /\ [][NextInvalidate]_vars

(***************************************************************************)
(* C5.  invalidate is monotonic: between two clears of the dirty rectangle *)
(* by render(), the dirty rectangle contains r intersected with the bounds *)
(* for every rectangle r invalidated so far, and no invalidate call        *)
(* removes a cell from the dirty rectangle.                                *)
(***************************************************************************)
C5_InvalidateMonotonic ==
    /\ [](acc \subseteq Cells(mDirty[Root]))
    /\ [][(pc = "idle" /\ pc' = "idle") =>
              Cells(mDirty[Root]) \subseteq Cells(mDirty'[Root])]_vars

\* Two or more invalidated cells after a clear, the dirty rectangle being
\* larger than what was invalidated and smaller than the bounds.
C5_Witness ==
    /\ last.op = "invalidate"
    /\ Cardinality(acc) >= 2
    /\ acc # Cells(mDirty[Root])
    /\ mDirty[Root] # mBounds[Root]

(***************************************************************************)
(* SpecAdd: the add-child scenario.  A 10x10 root, as constructed, is      *)
(* optionally filled (whole or part) and optionally rendered; a 2x2 layer  *)
(* is filled with 'b' and added at Z = 1 at one of AddPositions; then      *)
(* render() is called on the root or on the layer.                         *)
(* phase is the position in the scenario; at the addLayer call pending     *)
(* records whether the root had a valid dirty rectangle and acc records    *)
(* the root's buffer, as <<index, cell>> pairs.                            *)
(***************************************************************************)
AddSizes == <<(<<10, 10>>), (<<2, 2>>)>> @@ [s \in Surfaces |-> <<1, 1>>]
AddPositions == {Point(2, 2), Point(0, 0), Point(9, 9)}
AddPatterns == {CharA, Blank}
AddCrops == {EmptyRect, Rect(0, 0, 5, 10), Rect(1, 1, 4, 4)}
CharB == Char("b", white, black, none)

InitAdd == InitWith(Construct(NewWorld, AddSizes, 1))

AddFillRoot ==
    /\ phase = "free"
    /\ \E pattern \in AddPatterns, crop \in AddCrops : Fill(Root, pattern, crop)
    /\ phase' = "filled"
    /\ UNCHANGED <<pending, acc>>

AddCleanRoot ==
    /\ phase \in {"free", "filled", "cleaning"}
    /\ Render(Root)
    /\ phase' = "cleaning"
    /\ UNCHANGED <<pending, acc>>

AddFillLayer ==
    /\ phase \in {"free", "filled", "cleaning"}
    /\ Fill(Leaf, CharB, EmptyRect)
    /\ phase' = "ready"
    /\ UNCHANGED <<pending, acc>>

AddAddLayer ==
    /\ phase = "ready"
    /\ \E pos \in AddPositions : AddLayerPos(Root, Leaf, pos, 1)
    /\ phase' = "added"
    /\ pending' = IF valid(mDirty[Root]) THEN {Root} ELSE {}
    /\ acc' = {<<i, mData[Root][i]>> : i \in DOMAIN mData[Root]}

AddRender ==
    /\ phase = "added"
    /\ \E s \in {Root, Leaf} : Render(s)
    /\ phase' = "rendered"
    /\ UNCHANGED <<pending, acc>>

AddRenderNothing == RenderNothing /\ Free

AddRenderCompose == RenderCompose /\ Free

AddRenderDone == RenderDone /\ Free

NextAdd ==
    \/ AddFillRoot
    \/ AddCleanRoot
    \/ AddFillLayer
    \/ AddAddLayer
    \/ AddRender
    \/ AddRenderNothing
    \/ AddRenderCompose
    \/ AddRenderDone

SpecAdd == InitAdd /\ [][NextAdd]_vars

\* The layer's footprint in the root, clipped to the root's bounds.
AddFootprint == intersect(mBounds[Root], bounds(World, Leaf))

\* The outcome of the scenario: 'b' in the footprint, the root's buffer of
\* before the addLayer call elsewhere, and the footprint passed to the
\* root's renderDone().
AddOutcome ==
    /\ \A p \in Cells(mBounds[Root]) :
          LET i == index_for(mBounds[Root], p)
          IN  IF p \in Cells(AddFootprint)
              THEN mData[Root][i] = CharB
              ELSE <<i, mData[Root][i]>> \in acc
    /\ \E k \in DOMAIN hookLog : hookLog[k] = [sf |-> Root, dirty |-> AddFootprint]
    /\ \A k \in DOMAIN hookLog : hookLog[k].sf = Root => hookLog[k].dirty = AddFootprint

(***************************************************************************)
(* C9.  Add-child scenario, as stated: whatever the root's dirty rectangle *)
(* was when the layer was added (root rendered clean, as constructed, or   *)
(* freshly filled), after the render the root shows 'b' in the layer's     *)
(* footprint and its earlier content elsewhere, and the root's renderDone()*)
(* receives the footprint, Rect(2,2,4,4) for position (2,2).               *)
(***************************************************************************)
C9_AddChildAnyRoot ==
    (phase = "rendered" /\ pc = "idle") => AddOutcome

(***************************************************************************)
(* C9, amended: the same outcome for a root whose dirty rectangle was not  *)
(* valid (the root had been rendered clean) when the layer was added.      *)
(***************************************************************************)
C9_AddChildCleanRoot ==
    (phase = "rendered" /\ pc = "idle" /\ pending = {}) => AddOutcome

\* The scenario's case: layer at (2,2) on a clean root carrying a fill,
\* rendered; the hook has received Rect(2,2,4,4).
C9_Witness ==
    /\ phase = "rendered" /\ pc = "idle" /\ pending = {}
    /\ mPos[Leaf] = Point(2, 2)
    /\ AddFootprint = Rect(2, 2, 4, 4)
    /\ mData[Root][0] = CharA
    /\ mData[Root][index_for(mBounds[Root], Point(3, 3))] = CharB
    /\ \E k \in DOMAIN hookLog : hookLog[k] = [sf |-> Root, dirty |-> Rect(2, 2, 4, 4)]

(***************************************************************************)
(* SpecMove: the move scenario.  A 2x2 layer filled with 'b' is added to a *)
(* blank 10x10 root at one of MoveFrom, the tree is rendered until the     *)
(* root is clean, the layer is moved to one of MoveTo, and render() is     *)
(* called on the layer or on the root.                                     *)
(* phase is the position in the scenario; at the move() call pending       *)
(* records the layer's footprint of before the call.                       *)
(***************************************************************************)
MoveFrom == {Point(1, 1), Point(0, 0)}
MoveTo == {Point(5, 5), Point(2, 2), Point(9, 9)}

InitMove == InitWith(Construct(NewWorld, AddSizes, 1))

MoveFillLayer ==
    /\ phase = "free"
    /\ Fill(Leaf, CharB, EmptyRect)
    /\ phase' = "filled"
    /\ UNCHANGED <<pending, acc>>

MoveAddLayer ==
    /\ phase = "filled"
    /\ \E pos \in MoveFrom, Z \in ZRange : AddLayerPos(Root, Leaf, pos, Z)
    /\ phase' = "attached"
    /\ UNCHANGED <<pending, acc>>

MoveCleanRoot ==
    /\ phase \in {"attached", "cleaning"}
    /\ \E s \in {Root, Leaf} : Render(s)
    /\ phase' = "cleaning"
    /\ UNCHANGED <<pending, acc>>

MoveMove ==
    /\ phase = "cleaning"
    /\ ~valid(mDirty[Root])
    /\ mVisible[Leaf]
    /\ \E pos \in MoveTo : Move(Leaf, pos)
    /\ phase' = "moved"
    /\ pending' = {bounds(World, Leaf)}
    /\ UNCHANGED acc

MoveRender ==
    /\ phase = "moved"
    /\ \E s \in {Root, Leaf} : Render(s)
    /\ phase' = "rendered"
    /\ UNCHANGED <<pending, acc>>

MoveRenderNothing == RenderNothing /\ Free

MoveRenderCompose == RenderCompose /\ Free

MoveRenderDone == RenderDone /\ Free

NextMove ==
    \/ MoveFillLayer
    \/ MoveAddLayer
    \/ MoveCleanRoot
    \/ MoveMove
    \/ MoveRender
    \/ MoveRenderNothing
    \/ MoveRenderCompose
    \/ MoveRenderDone

SpecMove == InitMove /\ [][NextMove]_vars

\* The layer's footprint of before the move() call.
MoveOldFootprint == CHOOSE r \in pending : TRUE

\* The bounding union of the old and new footprints, clipped to the root.
MoveDirty ==
    intersect(mBounds[Root], boundingRect(MoveOldFootprint, bounds(World, Leaf)))

(***************************************************************************)
(* C10.  Move scenario: for an attached visible layer on a clean parent,   *)
(* after move() and a render() on the layer or on the parent, the parent's *)
(* buffer shows the layer at its new footprint and blank cells at the      *)
(* vacated one, and the dirty rectangle of the parent in that render, the  *)
(* one passed to its renderDone(), is the bounding union of the old and    *)
(* new footprints clipped to the parent's bounds: Rect(1,1,7,7) for a move *)
(* from (1,1) to (5,5).                                                    *)
(***************************************************************************)
C10_MoveRedrawsBoth ==
    (phase = "rendered" /\ pc = "idle") =>
        /\ \A p \in Cells(mBounds[Root]) :
              mData[Root][index_for(mBounds[Root], p)] =
                  IF p \in Cells(bounds(World, Leaf)) THEN CharB ELSE Blank
        /\ \E k \in DOMAIN hookLog : hookLog[k] = [sf |-> Root, dirty |-> MoveDirty]
        /\ \A k \in DOMAIN hookLog : hookLog[k].sf = Root => hookLog[k].dirty = MoveDirty

\* The scenario's case: moved from (1,1) to (5,5) and rendered.
C10_Witness ==
    /\ phase = "rendered" /\ pc = "idle"
    /\ pending = {Rect(1, 1, 3, 3)}
    /\ mPos[Leaf] = Point(5, 5)
    /\ mData[Root][index_for(mBounds[Root], Point(1, 1))] = Blank
    /\ mData[Root][index_for(mBounds[Root], Point(6, 6))] = CharB
    /\ \E k \in DOMAIN hookLog : hookLog[k] = [sf |-> Root, dirty |-> Rect(1, 1, 7, 7)]

(***************************************************************************)
(* SpecBlend: blend() as a function of its inputs.  A 2x2 destination and  *)
(* a 2x2 source, both detached; the source is filled, whole or in part,    *)
(* with 'a', 'b' or a transparent cell, and blended onto the destination   *)
(* with crops inside the source (and crops that are not valid) at          *)
(* positions from (-1,-1) to (2,2).                                        *)
(***************************************************************************)
CharT == Char("t", white, black, transparent)
BlendCrops == {Rect(0, 0, 2, 2), Rect(0, 0, 1, 1), Rect(1, 1, 2, 2), Rect(1, 0, 2, 2)}
BlendNoCrops == {EmptyRect, Rect(1, 1, 0, 0)}
BlendPos == {Point(x, y) : x \in -1..2, y \in -1..2}

InitBlend ==
    InitWith(Construct(NewWorld, <<(<<2, 2>>), (<<2, 2>>)>> @@ [s \in Surfaces |-> <<1, 1>>], 1))

BlendFillSource ==
    /\ \E pattern \in {CharA, CharB, CharT}, crop \in BlendCrops : Fill(Leaf, pattern, crop)
    /\ Free

BlendBlend ==
    /\ \E crop \in BlendCrops \cup BlendNoCrops, pos \in BlendPos :
          Blend(Root, Leaf, crop, pos)
    /\ Free

NextBlend == BlendFillSource \/ BlendBlend

SpecBlend == InitBlend /\ [][NextBlend]_vars

(***************************************************************************)
(* C11.  Transparency: when every cell of the source has the transparent   *)
(* attribute, blend() with any crop at any position leaves every cell of   *)
(* the destination's buffer as it was.                                     *)
(***************************************************************************)
C11_TransparentSourceKeepsDest ==
    (\A i \in DOMAIN mData[Leaf] : IsTransparent(mData[Leaf][i])) =>
        \A crop \in BlendCrops \cup BlendNoCrops, pos \in BlendPos :
            blend(World, Root, Leaf, crop, pos).w.mData[Root] = mData[Root]

\* A wholly transparent source has just been blended, with success, onto a
\* destination showing 'a' and 'b'.
C11_Witness ==
    /\ last.op = "blend" /\ ret = 0
    /\ \A i \in DOMAIN mData[Leaf] : IsTransparent(mData[Leaf][i])
    /\ \E i \in DOMAIN mData[Root] : mData[Root][i] = CharA
    /\ \E i \in DOMAIN mData[Root] : mData[Root][i] = CharB

(***************************************************************************)
(* C12.  Blend cell mapping under clipping: for every valid crop of the    *)
(* source and every position, negative ones included, after a successful   *)
(* blend each destination cell d inside the bounds intersected with the    *)
(* crop moved to pos holds the source cell at crop.top + (d - pos) unless  *)
(* that cell is transparent, in which case d keeps its value; every other  *)
(* destination cell is unchanged.                                          *)
(***************************************************************************)
C12_BlendCellMapping ==
    \A crop \in BlendCrops, pos \in BlendPos :
        LET r      == blend(World, Root, Leaf, crop, pos)
            region == intersect(mBounds[Root], Rect_move(crop, pos))
        IN  r.ret = 0 =>
                \A d \in Cells(mBounds[Root]) :
                    LET i      == index_for(mBounds[Root], d)
                        src_p  == Point(crop.top.x + (d.x - pos.x), crop.top.y + (d.y - pos.y))
                        src_ch == mData[Leaf][index_for(mBounds[Leaf], src_p)]
                    IN  r.w.mData[Root][i] =
                            IF d \in Cells(region) /\ ~IsTransparent(src_ch)
                            THEN src_ch
                            ELSE mData[Root][i]

(***************************************************************************)
(* C13.  Blend default crop: blend() with a crop that is not valid blends  *)
(* the entire source at pos and returns 0.                                 *)
(***************************************************************************)
C13_BlendDefaultCrop ==
    \A crop \in BlendNoCrops, pos \in BlendPos :
        LET r == blend(World, Root, Leaf, crop, pos)
        IN  /\ r.ret = 0
            /\ r.w.mData[Root] = blend(World, Root, Leaf, mBounds[Leaf], pos).w.mData[Root]

(***************************************************************************)
(* C14.  Resize discards content: in every state of the compositor, a      *)
(* successful resize(w, h) of any surface leaves its bounds at (0,0,w,h),  *)
(* a buffer of bounds.size() = w * h cells, and every cell blank.          *)
(***************************************************************************)
C14_ResizeDiscards ==
    \A s \in CompSurfaces, w \in 0..2, h \in 0..2 :
        LET r == resize(World, s, w, h)
        IN  r.ret = 0 =>
                /\ r.w.mBounds[s] = Rect(0, 0, w, h)
                /\ size(r.w.mBounds[s]) = w * h
                /\ DOMAIN r.w.mData[s] = 0..(w * h - 1)
                /\ \A i \in DOMAIN r.w.mData[s] : r.w.mData[s][i] = Blank

\* An attached leaf whose 'a' had been rendered into the root has just been
\* resized: its buffer is blank again.
C14_Witness ==
    /\ last.op = "resize" /\ ret = 0
    /\ mParent[Leaf] = Root
    /\ mData[Root][0] = CharA
    /\ mBounds[Leaf] = Rect(0, 0, 1, 1)
    /\ mData[Leaf][0] = Blank

(***************************************************************************)
(* C19.  Z-move on a detached surface: for every surface without a parent, *)
(* moveZ(Z) and move(pos, Z) both return a non-zero error code.            *)
(***************************************************************************)
C19_ZMoveDetachedFails ==
    \A s \in Surfaces, pos \in TreePos, Z \in ZRange :
        mParent[s] = Null =>
            /\ moveZ(World, s, Z).ret # 0
            /\ movePosZ(World, s, pos, Z).ret # 0

(***************************************************************************)
(* C20.  removeLayer(sf) and moveLayer(sf, Z) called on a surface p that   *)
(* is not sf's parent (sf detached, or a layer of another surface) return  *)
(* -EINVAL and change nothing: p's buckets and dirty rectangle, sf's       *)
(* parent link and the other parent's buckets stay as they were.           *)
(***************************************************************************)
C20_NotAttachedFails ==
    \A p \in Surfaces, sf \in Surfaces, Z \in ZRange :
        mParent[sf] # p =>
            /\ removeLayer(World, p, sf) = Result(World, -EINVAL)
            /\ moveLayer(World, p, sf, Z) = Result(World, -EINVAL)

\* removeLayer or moveLayer has just failed while a surface is a layer of
\* another surface that has layers in no other surface.
C20_Witness ==
    /\ last.op \in {"removeLayer", "moveLayer"}
    /\ ret = -EINVAL
    /\ \E sf \in Surfaces, p \in Surfaces :
          /\ sf # p
          /\ mParent[sf] = p
          /\ \A q \in Surfaces \ {p} : ~containsLayer(World, q, sf)

(***************************************************************************)
(* C17.  Render ordering: while render() on a surface S is running and the *)
(* render() of its parent (or of an ancestor further up) has started and   *)
(* S's own render() has not yet marked S clean, S's dirty rectangle is     *)
(* valid: it is valid when the parent's render starts and it is not        *)
(* cleared during the parent's render.                                     *)
(***************************************************************************)
C17_DirtyKeptDuringParentRender ==
    \A k \in 1..(Len(stack) - 1) : valid(mDirty[stack[k]])

(***************************************************************************)
(* C18.  Hook argument: every renderDone() of a render() receives a valid  *)
(* rectangle, and no surface's renderDone() is invoked twice in one        *)
(* render(), for roots and for attached surfaces alike.                    *)
(***************************************************************************)
C18_HookArgument ==
    /\ \A k \in DOMAIN hookLog : valid(hookLog[k].dirty)
    /\ \A j \in DOMAIN hookLog, k \in DOMAIN hookLog :
          hookLog[j].sf = hookLog[k].sf => j = k

(***************************************************************************)
(* SpecLayers: three surfaces, the 2x1 root and two 1x1 surfaces, as       *)
(* constructed.  The small ones are filled with 'a', 'b' or a transparent  *)
(* cell (the first) or with 'b' (the second) while they have no layers;    *)
(* the first is added to the root at (0,0) or (1,0), the second to the     *)
(* root or to the first at (0,0); they are removed, moved between Z, and   *)
(* render() is called on any of the three.                                 *)
(* phase is "zmoved" from a successful moveZ/moveLayer until the next fill *)
(* or change of the tree.  acc holds, from a render() call on a surface    *)
(* whose own dirty rectangle is not valid until the next call of another   *)
(* method, the descendants of that surface whose dirty rectangle was valid *)
(* at the call.                                                            *)
(***************************************************************************)
Other == 3
LayerPairs == {<<Root, Leaf>>, <<Root, Other>>, <<Leaf, Other>>}

LayFill ==
    /\ \E s \in {Leaf, Other}, pattern \in {CharA, CharB, CharT} :
          /\ DOMAIN mLayerMap[s] = {}
          /\ s = Other <=> pattern = CharB
          /\ Fill(s, pattern, EmptyRect)
    /\ phase' = "free" /\ acc' = {} /\ UNCHANGED pending

LayAddLayer ==
    /\ \E pair \in LayerPairs, pos \in CompPos, Z \in ZRange :
          /\ pair[2] = Other => pos = Point(0, 0)
          /\ AddLayerPos(pair[1], pair[2], pos, Z)
    /\ phase' = "free" /\ acc' = {} /\ UNCHANGED pending

LayRemoveLayer ==
    /\ \E pair \in LayerPairs : RemoveLayer(pair[1], pair[2])
    /\ phase' = "free" /\ acc' = {} /\ UNCHANGED pending

LayMoveZ ==
    /\ \E s \in {Leaf, Other}, Z \in ZRange : MoveZ(s, Z)
    /\ phase' = (IF ret' = 0 THEN "zmoved" ELSE phase)
    /\ acc' = {} /\ UNCHANGED pending

LayMoveLayer ==
    /\ \E pair \in LayerPairs, Z \in ZRange : MoveLayer(pair[1], pair[2], Z)
    /\ phase' = (IF ret' = 0 THEN "zmoved" ELSE phase)
    /\ acc' = {} /\ UNCHANGED pending

LayRender ==
    /\ \E s \in Surfaces :
          /\ Render(s)
          /\ acc' = IF valid(mDirty[s])
                    THEN {}
                    ELSE {d \in Surfaces : s \in Ancestors(World, d, NSurf) /\ valid(mDirty[d])}
    /\ UNCHANGED <<pending, phase>>

NextLayers ==
    \/ LayFill
    \/ LayAddLayer
    \/ LayRemoveLayer
    \/ LayMoveZ
    \/ LayMoveLayer
    \/ LayRender
    \/ CompRenderNothing
    \/ CompRenderCompose
    \/ CompRenderDone

SpecLayers == InitComp /\ [][NextLayers]_vars

\* The Z index of layer c of surface p.
ZOf(p, c) == SetMin(BucketsOf(mLayerMap[p], c))

\* The visible layers of p with valid bounds that cover cell q of p.
Covering(p, q) ==
    {c \in Surfaces : /\ mParent[c] = p /\ containsLayer(World, p, c)
                      /\ mVisible[c] /\ valid(mBounds[c])
                      /\ q \in Cells(bounds(World, c))}

\* The cell of layer c that lies over cell q of its parent.
CellOver(c, q) ==
    mData[c][index_for(mBounds[c], Point(q.x - mPos[c].x, q.y - mPos[c].y))]

(***************************************************************************)
(* C15.  Z-order compositing: after the render of a surface p, every cell  *)
(* of p inside the rendered dirty rectangle that is covered by visible     *)
(* layers at two or more different Z indices holds the cell of the layer   *)
(* with the highest Z among those whose cell there is not transparent;     *)
(* also after moveZ/moveLayer has changed a layer's Z.                     *)
(***************************************************************************)
C15_ZOrder ==
    \A k \in DOMAIN hookLog :
        LET p == hookLog[k].sf
        IN  \A q \in Cells(hookLog[k].dirty) \cap Cells(mBounds[p]) :
                LET over == {c \in Covering(p, q) : ~IsTransparent(CellOver(c, q))}
                IN  /\ \E c1 \in Covering(p, q), c2 \in Covering(p, q) : ZOf(p, c1) # ZOf(p, c2)
                    /\ over # {}
                    => \E c \in over :
                          /\ \A c2 \in over : ZOf(p, c2) <= ZOf(p, c)
                          /\ mData[p][index_for(mBounds[p], q)] = CellOver(c, q)

\* Both small surfaces lie over root cell (0,0); a moveZ/moveLayer has put
\* the one showing 'a' above the one showing 'b'; the root, rendered, shows 'a'.
C15_Witness ==
    /\ pc = "idle" /\ last.op = "render" /\ phase = "zmoved"
    /\ Covering(Root, Point(0, 0)) = {Leaf, Other}
    /\ ZOf(Root, Leaf) > ZOf(Root, Other)
    /\ mData[Leaf][0] = CharA /\ mData[Other][0] = CharB
    /\ mData[Root][0] = CharA
    /\ \E k \in DOMAIN hookLog :
          hookLog[k].sf = Root /\ Point(0, 0) \in Cells(hookLog[k].dirty)

\* The cell of surface s at q composited from scratch: a surface without
\* layers shows its buffer, a surface with layers a blank background and
\* its visible layers, lowest Z first, transparent cells skipped.
RECURSIVE TreeCell(_, _, _, _)
TreeCell(W, s, q, depth) ==
    IF DOMAIN W.mLayerMap[s] = {} \/ depth = 0
    THEN W.mData[s][index_for(W.mBounds[s], q)]
    ELSE LET seq   == LayerSeq(W, s)
             Local(c) == Point(q.x - W.mPos[c].x, q.y - W.mPos[c].y)
             shown == {i \in DOMAIN seq :
                          /\ W.mVisible[seq[i]]
                          /\ q \in Cells(bounds(W, seq[i]))
                          /\ ~IsTransparent(TreeCell(W, seq[i], Local(seq[i]), depth - 1))}
         IN  IF shown = {}
             THEN Blank
             ELSE LET top == CHOOSE i \in shown : \A j \in shown : j <= i
                  IN  TreeCell(W, seq[top], Local(seq[top]), depth - 1)

\* The footprint of descendant d (a layer, or a layer of a layer) in surface a.
FootprintIn(a, d) ==
    IF mParent[d] = a
    THEN intersect(mBounds[a], bounds(World, d))
    ELSE LET p    == mParent[d]
             in_p == intersect(mBounds[p], bounds(World, d))
         IN  intersect(mBounds[a],
                       Rect(in_p.top.x + mPos[p].x, in_p.top.y + mPos[p].y,
                            in_p.bottom.x + mPos[p].x, in_p.bottom.y + mPos[p].y))

\* Cell q of p shows the topmost of its layers' buffers that is not
\* transparent there, or the blank background.
ShowsTopLayer(p, q) ==
    LET over == {c \in Covering(p, q) : ~IsTransparent(CellOver(c, q))}
        cell == mData[p][index_for(mBounds[p], q)]
    IN  IF over = {}
        THEN cell = Blank
        ELSE \E c \in over : /\ \A c2 \in over : ZOf(p, c2) <= ZOf(p, c)
                             /\ cell = CellOver(c, q)

\* render() on a surface that is clean and has no dirty descendant returns
\* at the first test and changes nothing.
RenderInert ==
    (/\ pc = "enter" /\ Len(stack) = 1
     /\ \A d \in Surfaces : (d = Top \/ Top \in Ancestors(World, d, NSurf)) => ~valid(mDirty[d]))
    => /\ ~valid(renderFold(World, Top).mDirty[Top])
       /\ renderFold(World, Top) = World

(***************************************************************************)
(* C16.  Render on an ancestor pulls in descendant changes, as stated:     *)
(* after render() on a surface A whose own dirty rectangle was not valid,  *)
(* for every descendant D, at any depth, whose dirty rectangle was valid   *)
(* at the call, A's buffer shows in D's footprint what compositing the     *)
(* tree from scratch shows there; and render() on a branch without dirty   *)
(* state changes nothing.                                                  *)
(***************************************************************************)
C16_AncestorPullsDescendants ==
    /\ (pc = "idle" /\ last.op = "render") =>
           \A d \in acc : \A q \in Cells(FootprintIn(last.rsf, d)) :
               mData[last.rsf][index_for(mBounds[last.rsf], q)] =
                   TreeCell(World, last.rsf, q, NSurf)
    /\ RenderInert

(***************************************************************************)
(* C16, amended: after render() on a surface A whose own dirty rectangle   *)
(* was not valid, for every layer D of A (a direct child) whose dirty      *)
(* rectangle was valid at the call, A's buffer shows in D's footprint the  *)
(* topmost non-transparent layer buffer, or blank; a dirty descendant      *)
(* further down is not shown but keeps its dirty rectangle; and render()   *)
(* on a branch without dirty state changes nothing.                        *)
(***************************************************************************)
C16_AncestorPullsChildren ==
    /\ (pc = "idle" /\ last.op = "render") =>
           \A d \in acc :
               IF mParent[d] = last.rsf
               THEN \A q \in Cells(FootprintIn(last.rsf, d)) : ShowsTopLayer(last.rsf, q)
               ELSE valid(mDirty[d])
    /\ RenderInert

\* render() on the clean root has pulled in the 'a' of its dirty layer, and
\* has left the layer's own dirty layer dirty.
C16_Witness ==
    /\ pc = "idle" /\ last.op = "render" /\ last.rsf = Root
    /\ acc = {Leaf, Other}
    /\ mParent[Leaf] = Root /\ mParent[Other] = Leaf
    /\ mData[Leaf][0] = CharA
    /\ mData[Root][index_for(mBounds[Root], mPos[Leaf])] = CharA
    /\ valid(mDirty[Other])
    /\ \E k \in DOMAIN hookLog : hookLog[k].sf = Root


(***************************************************************************)
(* SpecGeometry: the static Rect functions applied to every pair of        *)
(* rectangles, valid or not, with corners in (-GeoLow)..GeoMax.            *)
(***************************************************************************)
GeoLow == 1
GeoMax == 2

GeoRects ==
    {Rect(tx, ty, bx, by) : tx \in (-GeoLow)..GeoMax, ty \in (-GeoLow)..GeoMax,
                            bx \in (-GeoLow)..GeoMax, by \in (-GeoLow)..GeoMax}

GeoCall(op, r1, r2, r) ==
    /\ pc = "idle"
    /\ ret' = r
    /\ last' = [op |-> op, r1 |-> r1, r2 |-> r2]
    /\ UNCHANGED <<surfVars, pc, stack, hookLog, pending, acc, phase>>
    /\ UNCHANGED termVars

\* The two arguments are drawn at the start; the calls apply the functions.
InitGeometry ==
    /\ mBounds = NewWorld.mBounds
    /\ mDirty = NewWorld.mDirty
    /\ mPos = NewWorld.mPos
    /\ mVisible = NewWorld.mVisible
    /\ mParent = NewWorld.mParent
    /\ mData = NewWorld.mData
    /\ mLayerMap = NewWorld.mLayerMap
    /\ pc = "idle"
    /\ stack = <<>>
    /\ ret = 0
    /\ \E r1 \in GeoRects, r2 \in GeoRects : last = [op |-> "none", r1 |-> r1, r2 |-> r2]
    /\ hookLog = <<>>
    /\ pending = {}
    /\ acc = {}
    /\ phase = "free"
    /\ NoTerminal

GeoIntersect == GeoCall("intersect", last.r1, last.r2, intersect(last.r1, last.r2))

GeoBoundingRect == GeoCall("boundingRect", last.r1, last.r2, boundingRect(last.r1, last.r2))

NextGeometry == GeoIntersect \/ GeoBoundingRect

SpecGeometry == InitGeometry /\ [][NextGeometry]_vars

\* The cells (x, y) with top.x <= x < bottom.x and top.y <= y < bottom.y,
\* written without valid().
Inside(r) ==
    {p \in {Point(x, y) : x \in (-GeoLow)..GeoMax, y \in (-GeoLow)..GeoMax} :
        /\ r.top.x <= p.x /\ p.x < r.bottom.x
        /\ r.top.y <= p.y /\ p.y < r.bottom.y}

\* C25: intersect(r1, r2) is valid exactly when some cell lies in both r1 and
\* r2, and a valid result holds exactly the cells common to both.
C25_IntersectOverlap ==
    last.op = "intersect" =>
        LET common == Inside(last.r1) \cap Inside(last.r2)
        IN /\ valid(ret) <=> common # {}
           /\ valid(ret) => Inside(ret) = common

C25_Witness ==
    /\ last.op = "intersect"
    /\ valid(ret)
    /\ ret # last.r1
    /\ ret # last.r2

\* C26: boundingRect(r1, r2) contains every cell of r1 and of r2, is valid
\* when one input is valid, and equals the valid input when the other input
\* is not valid.
C26_BoundingRect ==
    last.op = "boundingRect" =>
        /\ Inside(last.r1) \cup Inside(last.r2) \subseteq Inside(ret)
        /\ (valid(last.r1) \/ valid(last.r2)) => valid(ret)
        /\ (valid(last.r1) /\ ~valid(last.r2)) => ret = last.r1
        /\ (valid(last.r2) /\ ~valid(last.r1)) => ret = last.r2


(***************************************************************************)
(* C27.  A clean render is inert (Spec).                                   *)
(***************************************************************************)
\* The surface's own dirty rectangle is not valid and no visible layer of
\* it has a valid dirty rectangle.
CleanHere(s) ==
    /\ ~valid(mDirty[s])
    /\ \A c \in Surfaces : (mParent[c] = s /\ mVisible[c]) => ~valid(mDirty[c])

\* C27: render() called on a surface whose dirty rectangle is not valid and
\* whose visible layers have no valid dirty rectangle returns at once: no
\* field of any surface changes, the parent's render() is not entered (also
\* when the parent is dirty) and no renderDone() hook runs.
C27_CleanRenderInert ==
    [][(pc = "enter" /\ Len(stack) = 1 /\ CleanHere(Top)) =>
           (UNCHANGED surfVars /\ pc' = "idle" /\ stack' = <<>> /\ hookLog' = <<>>)]_vars

C27_Witness ==
    /\ pc = "idle"
    /\ last.op = "render"
    /\ hookLog = <<>>
    /\ mParent[last.rsf] # Null
    /\ valid(mDirty[mParent[last.rsf]])
    /\ CleanHere(last.rsf)


(***************************************************************************)
(* SpecScene: the erase and propagation scenarios.  Three surfaces of      *)
(* sizes 3x1, 2x1 and 1x1; the two smaller ones are filled ('a' and 'b')   *)
(* and attached, to the root or in a chain, and everything is rendered     *)
(* until no dirty rectangle is valid.  Then one of removeLayer(), hide()   *)
(* and invalidate(rect) is called, followed by render().                   *)
(* pending holds the call: its kind, the parent p, the surface c and the   *)
(* rectangle r; acc holds the cells of c's footprint in p at the call.     *)
(***************************************************************************)
SceneSizes == <<(<<3, 1>>), (<<2, 1>>), (<<1, 1>>)>> @@ [s \in Surfaces |-> <<1, 1>>]
ScenePos == {Point(0, 0), Point(1, 0), Point(2, 0)}
SceneRects == {Rect(0, 0, 1, 1), Rect(1, 0, 2, 1), Rect(0, 0, 2, 1), Rect(1, 0, 3, 1), Rect(2, 0, 3, 1)}

InitScene == InitWith(Construct(NewWorld, SceneSizes, 1))

AllClean == pc = "idle" /\ \A s \in Surfaces : ~valid(mDirty[s])

SceneCall == CHOOSE c \in pending : TRUE

SceneFill ==
    /\ phase = "free"
    /\ \E s \in {Leaf, Other} :
          /\ DOMAIN mLayerMap[s] = {}
          /\ Fill(s, IF s = Leaf THEN CharA ELSE CharB, EmptyRect)
    /\ Free

SceneAddLayer ==
    /\ phase = "free"
    /\ \E pair \in LayerPairs, pos \in ScenePos, Z \in ZRange :
          AddLayerPos(pair[1], pair[2], pos, Z)
    /\ Free

SceneClean ==
    /\ phase = "free"
    /\ \E s \in Surfaces : Render(s)
    /\ Free

SceneRemoveLayer ==
    /\ phase = "free" /\ AllClean
    /\ \E pair \in LayerPairs :
          /\ mParent[pair[2]] = pair[1]
          /\ RemoveLayer(pair[1], pair[2])
          /\ pending' = {[kind |-> "removeLayer", p |-> pair[1], c |-> pair[2], r |-> EmptyRect]}
          /\ acc' = Cells(intersect(mBounds[pair[1]], bounds(World, pair[2])))
    /\ phase' = "called"

SceneHide ==
    /\ phase = "free"
    /\ \E c \in {Leaf, Other} :
          /\ mParent[c] # Null
          /\ mVisible[c]
          /\ Hide(c)
          /\ pending' = {[kind |-> "hide", p |-> mParent[c], c |-> c, r |-> EmptyRect]}
          /\ acc' = Cells(intersect(mBounds[mParent[c]], bounds(World, c)))
    /\ phase' = "called"

SceneInvalidate ==
    /\ phase = "free" /\ AllClean
    /\ \E c \in {Leaf, Other}, r \in SceneRects :
          /\ mParent[c] # Null
          /\ DOMAIN mLayerMap[c] = {}
          /\ Invalidate(c, r)
          /\ pending' = {[kind |-> "invalidate", p |-> mParent[c], c |-> c, r |-> r]}
          /\ acc' = {}
    /\ phase' = "called"

\* render() after the call: on the parent after removeLayer(), on the
\* surface or its parent after hide(), on the surface after invalidate().
SceneRender ==
    /\ phase = "called"
    /\ \E s \in {SceneCall.p, SceneCall.c} :
          /\ SceneCall.kind = "removeLayer" => s = SceneCall.p
          /\ SceneCall.kind = "invalidate" => s = SceneCall.c
          /\ Render(s)
    /\ phase' = "rendered"
    /\ UNCHANGED <<pending, acc>>

\* The hidden surface changes while it stays hidden.
SceneTouchHidden ==
    /\ phase = "rendered" /\ SceneCall.kind = "hide"
    /\ InvalidateAll(SceneCall.c)
    /\ phase' = "touched"
    /\ UNCHANGED <<pending, acc>>

SceneRenderHidden ==
    /\ phase = "touched"
    /\ \E s \in {SceneCall.p, SceneCall.c} : Render(s)
    /\ Free

NextScene ==
    \/ SceneFill
    \/ SceneAddLayer
    \/ SceneClean
    \/ SceneRemoveLayer
    \/ SceneHide
    \/ SceneInvalidate
    \/ SceneRender
    \/ SceneTouchHidden
    \/ SceneRenderHidden
    \/ CompRenderNothing
    \/ CompRenderCompose
    \/ CompRenderDone

SpecScene == InitScene /\ [][NextScene]_vars

(***************************************************************************)
(* C30.  Remove erases: after p.removeLayer(c) and p.render(), every cell  *)
(* of p inside c's vacated footprint shows the topmost remaining visible   *)
(* layer there or the blank background, not c's composited content; also   *)
(* when c was the last layer of p.                                         *)
(***************************************************************************)
C30_RemoveErases ==
    (phase = "rendered" /\ pc = "idle" /\ SceneCall.kind = "removeLayer") =>
        \A q \in acc : ShowsTopLayer(SceneCall.p, q)


(***************************************************************************)
(* C29.  Hide erases: after hide() on an attached visible layer c of p and *)
(* a render() on c or on p, every cell of p inside c's footprint shows the *)
(* topmost remaining visible layer there or the blank background; and      *)
(* while c stays hidden, a change of c (its dirty rectangle becomes valid) *)
(* never makes p's dirty rectangle valid, whichever of the two is rendered.*)
(***************************************************************************)
C29_HideErases ==
    /\ (phase = "rendered" /\ pc = "idle" /\ SceneCall.kind = "hide") =>
           \A q \in acc : ShowsTopLayer(SceneCall.p, q)
    /\ phase = "touched" => ~valid(mDirty[SceneCall.p])

\* The layer showing 'a' was composited, hidden and erased from its parent;
\* it then became dirty and its parent was rendered.
C29_Witness ==
    /\ phase = "touched" /\ pc = "idle"
    /\ last.op = "render" /\ last.rsf = SceneCall.p
    /\ ~mVisible[SceneCall.c]
    /\ valid(mDirty[SceneCall.c])
    /\ \E q \in acc :
          /\ CellOver(SceneCall.c, q) = CharA
          /\ mData[SceneCall.p][index_for(mBounds[SceneCall.p], q)] = Blank


(***************************************************************************)
(* C28.  Upward propagation.                                               *)
(***************************************************************************)
\* The rectangle r of surface s as it arrives at ancestor a: at every step
\* up, translated by the position of the surface left behind and clipped to
\* the bounds of the ancestor entered.
RECURSIVE DirtyAt(_, _, _, _)
DirtyAt(s, r, a, n) ==
    IF s = a \/ mParent[s] = Null \/ n = 0
    THEN r
    ELSE DirtyAt(mParent[s],
                 intersect(mBounds[mParent[s]],
                           Rect(r.top.x + mPos[s].x, r.top.y + mPos[s].y,
                                r.bottom.x + mPos[s].x, r.bottom.y + mPos[s].y)),
                 a, n - 1)

HooksOf(a) == {k \in DOMAIN hookLog : hookLog[k].sf = a}

SceneRoot == CHOOSE a \in Ancestors(World, SceneCall.c, NSurf) : mParent[a] = Null

\* C28, as stated: after invalidate(r), r a rectangle inside the leaf, on
\* the leaf of a clean visible chain and render() on the leaf, every
\* ancestor has composited and run its hook exactly once, and the root's
\* hook received r translated by the positions on the way up and clipped to
\* each ancestor's bounds.
C28_UpwardPropagation ==
    (/\ phase = "rendered" /\ pc = "idle" /\ SceneCall.kind = "invalidate"
     /\ intersect(mBounds[SceneCall.c], SceneCall.r) = SceneCall.r) =>
        /\ \A a \in Ancestors(World, SceneCall.c, NSurf) : Cardinality(HooksOf(a)) = 1
        /\ \A k \in HooksOf(SceneRoot) :
              hookLog[k].dirty = DirtyAt(SceneCall.c, SceneCall.r, SceneRoot, NSurf)

\* C28, amended: the rectangle is first clipped to the leaf's own bounds;
\* an ancestor at which the translated, clipped rectangle is still valid
\* composites and runs its hook exactly once, the root receiving that
\* rectangle; an ancestor at which it is not valid (the changed cells lie
\* outside its bounds), and every ancestor above it, is not rendered.
C28_UpwardPropagationClipped ==
    (phase = "rendered" /\ pc = "idle" /\ SceneCall.kind = "invalidate") =>
        LET r0 == intersect(mBounds[SceneCall.c], SceneCall.r)
        IN  \A a \in Ancestors(World, SceneCall.c, NSurf) :
                LET at == DirtyAt(SceneCall.c, r0, a, NSurf)
                IN  /\ Cardinality(HooksOf(a)) = (IF valid(at) THEN 1 ELSE 0)
                    /\ (a = SceneRoot /\ valid(at)) =>
                           \A k \in HooksOf(a) : hookLog[k].dirty = at

\* A chain of three with both positions (1,0): the leaf's cell arrives at
\* the root as Rect(2,0,3,1).
C28_Witness ==
    /\ phase = "rendered" /\ pc = "idle" /\ SceneCall.kind = "invalidate"
    /\ SceneCall.c = Other /\ mParent[Other] = Leaf /\ mParent[Leaf] = Root
    /\ mPos[Other] = Point(1, 0) /\ mPos[Leaf] = Point(1, 0)
    /\ \E k \in DOMAIN hookLog : hookLog[k] = [sf |-> Root, dirty |-> Rect(2, 0, 3, 1)]


\* Screen::addLayer(sf, pos, Z = 0) forwards to Surface::addLayer(sf, pos, Z).
Screen_addLayer(sf, pos) == AddLayerPos(Root, sf, pos, 0)

(***************************************************************************)
(* SpecFactory: Screen::getInstance() and Keyboard::getInstance().         *)
(* Every system call of the initialisation may fail; which ones fail in a  *)
(* call is the call's input (fails).  An instance is a record: ptr, the    *)
(* object's address, and init, the initialisation steps done on it.        *)
(***************************************************************************)
ScreenSteps == <<"ioctl", "sigprocmask", "signalfd">>
KeyboardSteps == <<"setvbuf", "tcgetattr", "tcsetattr">>

StepsOf(cls) == IF cls = "Screen" THEN ScreenSteps ELSE KeyboardSteps

Range(seq) == {seq[i] : i \in DOMAIN seq}

\* The steps done when the calls of steps are made in order until one of
\* them fails: the longest prefix without a failing step.
DoneBefore(steps, fails) ==
    {steps[i] : i \in {j \in DOMAIN steps : \A k \in 1..j : steps[k] \notin fails}}

\* The object's address: there is one static instance per class.
PtrOf(cls) == IF cls = "Screen" THEN 1 ELSE 2

Screen_getInstance(inst, fails) ==
    IF inst.Screen.ptr # Null
    THEN [inst |-> inst, ret |-> inst.Screen.ptr]
    ELSE IF "ioctl" \in fails
    THEN [inst |-> inst, ret |-> Null]
    ELSE LET done == DoneBefore(ScreenSteps, fails)
             made == [inst EXCEPT !.Screen = [ptr |-> PtrOf("Screen"), init |-> done]]
         IN  [inst |-> made,
              ret  |-> IF done = Range(ScreenSteps) THEN PtrOf("Screen") ELSE Null]

Keyboard_getInstance(inst, fails) ==
    IF inst.Keyboard.ptr # Null
    THEN [inst |-> inst, ret |-> inst.Keyboard.ptr]
    ELSE LET done == DoneBefore(KeyboardSteps, fails)
             made == [inst EXCEPT !.Keyboard = [ptr |-> PtrOf("Keyboard"), init |-> done]]
         IN  [inst |-> made,
              ret  |-> IF done = Range(KeyboardSteps) THEN PtrOf("Keyboard") ELSE Null]

GetInstance(cls, fails) ==
    LET r == IF cls = "Screen"
             THEN Screen_getInstance(instance, fails)
             ELSE Keyboard_getInstance(instance, fails)
    IN  /\ pc = "idle"
        /\ instance' = r.inst
        /\ ret' = r.ret
        /\ last' = [op |-> "getInstance", cls |-> cls, fails |-> fails]
        /\ UNCHANGED <<surfVars, pc, stack, hookLog, pending, acc, phase>>
        /\ UNCHANGED <<screen, out, stdin, kb>>

FacScreen == \E fails \in SUBSET Range(ScreenSteps) : GetInstance("Screen", fails)

FacKeyboard == \E fails \in SUBSET Range(KeyboardSteps) : GetInstance("Keyboard", fails)

NextFactory == FacScreen \/ FacKeyboard

SpecFactory == InitWith(NewWorld) /\ [][NextFactory]_vars

\* C21: a getInstance() call returns a non-null pointer only to an instance
\* on which every initialisation step has succeeded, also when an earlier
\* call failed part-way; every non-null result of a class is that class's
\* one instance.
C21_NoFailedInstance ==
    (last.op = "getInstance" /\ ret # Null) =>
        /\ ret = instance[last.cls].ptr
        /\ instance[last.cls].init = Range(StepsOf(last.cls))


(***************************************************************************)
(* The keyboard decoder.  Bytes and keys are integers, as in the code.     *)
(***************************************************************************)
ETIMEDOUT == 110

KEY_UNKNOWN == 0
KEY_ESC == 27
KEY_F1 == 10000
KEY_F2 == 10001
KEY_F3 == 10002
KEY_F4 == 10003
KEY_F5 == 10004
KEY_F6 == 10005
KEY_F7 == 10006
KEY_F8 == 10007
KEY_F9 == 10008
KEY_F10 == 10009
KEY_F11 == 10010
KEY_F12 == 10011
KEY_INS == 10012
KEY_DEL == 10013
KEY_HOME == 10014
KEY_END == 10015
KEY_PGUP == 10016
KEY_PGDOWN == 10017
KEY_UP == 10018
KEY_DOWN == 10019
KEY_LEFT == 10020
KEY_RIGHT == 10021
KEY_ESC_SEQ == 10022
MOD_META == 1000
MOD_ALT == 3000

\* The characters the decoder tests for, by their ASCII codes.
Ch_0 == 48
Ch_9 == 57
Ch_Semi == 59
Ch_A == 65
Ch_O == 79
Ch_LBracket == 91
Ch_Tilde == 126

\* params.back()
Back(params) == params[Len(params)]

esc_seq_param(params, key) ==
    IF params = <<>>
    THEN key
    ELSE IF Back(params) >= 1 /\ Back(params) <= 8
    THEN key + Back(params) * MOD_META
    ELSE KEY_UNKNOWN

\* The switch on params[0] of the '~' entry.
TildeBase ==
    (2 :> KEY_INS) @@ (3 :> KEY_DEL) @@ (5 :> KEY_PGUP) @@ (6 :> KEY_PGDOWN) @@
    (15 :> KEY_F5) @@ (17 :> KEY_F6) @@ (18 :> KEY_F7) @@ (19 :> KEY_F8) @@
    (20 :> KEY_F9) @@ (21 :> KEY_F10) @@ (23 :> KEY_F11) @@ (24 :> KEY_F12)

\* The '~' entry of the key map.
TildeKey(params) ==
    IF params = <<>> \/ params[1] \notin DOMAIN TildeBase
    THEN KEY_UNKNOWN
    ELSE LET key  == TildeBase[params[1]]
             key1 == IF Len(params) = 2 /\ params[2] >= 1 /\ params[2] <= 8
                     THEN key + params[2] * MOD_META
                     ELSE key
         IN  IF Len(params) > 2 THEN KEY_UNKNOWN ELSE key1

\* The PARAM(key) entries of the key map: 'A' 'B' 'C' 'D' 'H' 'F' 'P' 'Q' 'R' 'S'.
LetterKeys ==
    (65 :> KEY_UP) @@ (66 :> KEY_DOWN) @@ (67 :> KEY_RIGHT) @@ (68 :> KEY_LEFT) @@
    (72 :> KEY_HOME) @@ (70 :> KEY_END) @@ (80 :> KEY_F1) @@ (81 :> KEY_F2) @@
    (82 :> KEY_F3) @@ (83 :> KEY_F4)

\* term_keymap->map.find(key) and the call of the entry found; the map's
\* key type is char.
xterm_keymap(key, params) ==
    LET c == key % 256
    IN  IF c = Ch_Tilde
        THEN TildeKey(params)
        ELSE IF c \in DOMAIN LetterKeys
        THEN esc_seq_param(params, LetterKeys[c])
        ELSE KEY_UNKNOWN

\* A waitForKey() frame: pc is "idle", "poll" (in the first poll() of
\* pollOnce) or "escpoll" (in its second poll(), after ESC was read); site is
\* the pollOnce() call that is running; timeout is that call's argument;
\* params and p are parseEsc's locals; read is the bytes read so far.
KbFrame(pcv, site, timeout, params, p, read) ==
    [pc |-> pcv, site |-> site, timeout |-> timeout, params |-> params, p |-> p, read |-> read]

\* What the caller of pollOnce() does with its result key: either
\* waitForKey() returns (done, with ret) or pollOnce() is called again.
AfterPoll(k, key) ==
    LET Return(r) == [done |-> TRUE, ret |-> r,
                      kb |-> KbFrame("idle", "none", -1, <<>>, 0, k.read)]
        Again(site, params, p) ==
                     [done |-> FALSE, ret |-> 0,
                      kb |-> KbFrame("poll", site, -1, params, p, k.read)]
    IN  CASE k.site = "first" ->
                 IF key # KEY_ESC_SEQ \/ key < 0
                 THEN Return(key)
                 ELSE Again("second", <<>>, 0)
          [] k.site = "second" ->
                 IF key < 0
                 THEN Return(key)
                 ELSE IF key = Ch_LBracket \/ key = Ch_O
                 THEN Again("parse", <<>>, 0)
                 ELSE Return(key + MOD_ALT)
          [] k.site = "parse" ->
                 IF key < 0
                 THEN Return(key)
                 ELSE IF key >= Ch_0 /\ key <= Ch_9
                 THEN Again("parse", k.params,
                            IF k.p # 0 THEN k.p * 10 + (key - 48) ELSE key - 48)
                 ELSE IF key = Ch_Semi
                 THEN Again("parse", Append(k.params, k.p), 0)
                 ELSE Return(xterm_keymap(key, IF k.p # 0
                                               THEN Append(k.params, k.p)
                                               ELSE k.params))


(***************************************************************************)
(* SpecKeyboard: waitForKey() on a terminal input stream.                  *)
(* What is typed is drawn at the start: a plain byte, ESC alone, ESC and a *)
(* byte, or ESC '[' / ESC 'O' with parameters and a final byte, possibly   *)
(* cut short (final = Null: the stream stops there).  Some of its bytes    *)
(* are readable at once, the others arrive later, one at a time.           *)
(* pending holds what was typed.                                           *)
(***************************************************************************)
KbTimeouts == {-1, 50}

KeyParams ==
    {<<>>, <<0>>, <<1>>, <<2>>, <<5>>, <<9>>, <<15>>, <<1, 0>>, <<1, 2>>, <<1, 5>>, <<1, 9>>,
     <<2, 0>>, <<2, 5>>, <<2, 9>>, <<15, 8>>, <<0, 2>>, <<2, 5, 1>>}

KeyFinals == {Null, Ch_Tilde, Ch_A, 72, 80, 90}

Typed ==
    {[esc |-> FALSE, intro |-> 97, params |-> <<>>, final |-> Null],
     [esc |-> TRUE, intro |-> Null, params |-> <<>>, final |-> Null],
     [esc |-> TRUE, intro |-> 97, params |-> <<>>, final |-> Null],
     [esc |-> TRUE, intro |-> 49, params |-> <<>>, final |-> Null]}
    \cup {[esc |-> TRUE, intro |-> i, params |-> ps, final |-> f] :
             i \in {Ch_LBracket, Ch_O}, ps \in KeyParams, f \in KeyFinals}

\* A number as the terminal sends it: its decimal digits.
RECURSIVE Digits(_)
Digits(n) == IF n < 10 THEN <<Ch_0 + n>> ELSE Digits(n \div 10) \o <<Ch_0 + (n % 10)>>

\* Parameters as the terminal sends them: val ; val ; ...
RECURSIVE EncodeParams(_)
EncodeParams(ps) ==
    IF ps = <<>>
    THEN <<>>
    ELSE IF Len(ps) = 1
    THEN Digits(ps[1])
    ELSE Digits(ps[1]) \o <<Ch_Semi>> \o EncodeParams(Tail(ps))

Bytes(t) ==
    (IF t.esc THEN <<KEY_ESC>> ELSE <<>>)
    \o (IF t.intro # Null THEN <<t.intro>> ELSE <<>>)
    \o EncodeParams(t.params)
    \o (IF t.final # Null THEN <<t.final>> ELSE <<>>)

\* Keyboard::getInstance() has succeeded.
KeyboardReady ==
    [NoInstance EXCEPT !.Keyboard = [ptr |-> PtrOf("Keyboard"), init |-> Range(KeyboardSteps)]]

InitKeyboard ==
    /\ mBounds = NewWorld.mBounds
    /\ mDirty = NewWorld.mDirty
    /\ mPos = NewWorld.mPos
    /\ mVisible = NewWorld.mVisible
    /\ mParent = NewWorld.mParent
    /\ mData = NewWorld.mData
    /\ mLayerMap = NewWorld.mLayerMap
    /\ pc = "idle"
    /\ stack = <<>>
    /\ ret = 0
    /\ last = [op |-> "none", timeout |-> -1]
    /\ hookLog = <<>>
    /\ acc = {}
    /\ phase = "free"
    /\ instance = KeyboardReady
    /\ screen = NewScreen
    /\ out = <<>>
    /\ kb = KbIdle
    /\ \E t \in Typed, n \in 0..6 :
          /\ n <= Len(Bytes(t))
          /\ pending = {t}
          /\ stdin = [buf   |-> SubSeq(Bytes(t), 1, n),
                      later |-> SubSeq(Bytes(t), n + 1, Len(Bytes(t)))]

KbUnchanged == UNCHANGED <<surfVars, pc, stack, hookLog, pending, acc, phase, instance, screen, out>>

\* pollOnce() returns key to its caller.
Deliver(k, key) ==
    /\ kb' = AfterPoll(k, key).kb
    /\ ret' = IF AfterPoll(k, key).done THEN AfterPoll(k, key).ret ELSE ret

KbWaitForKey ==
    /\ kb.pc = "idle"
    /\ instance.Keyboard.init = Range(KeyboardSteps)
    /\ \E timeout_ms \in KbTimeouts :
          /\ kb' = KbFrame("poll", "first", timeout_ms, <<>>, 0, <<>>)
          /\ last' = [op |-> "waitForKey", timeout |-> timeout_ms]
    /\ UNCHANGED <<ret, stdin>>
    /\ KbUnchanged

\* poll() reports input, read() takes one byte.
KbPollRead ==
    /\ kb.pc = "poll"
    /\ stdin.buf # <<>>
    /\ stdin' = [stdin EXCEPT !.buf = Tail(stdin.buf)]
    /\ LET k == [kb EXCEPT !.read = Append(kb.read, Head(stdin.buf))]
       IN  IF Head(stdin.buf) = KEY_ESC
           THEN kb' = [k EXCEPT !.pc = "escpoll"] /\ ret' = ret
           ELSE Deliver(k, Head(stdin.buf))
    /\ UNCHANGED last
    /\ KbUnchanged

\* poll() with a timeout returns 0.
KbPollTimeout ==
    /\ kb.pc = "poll"
    /\ kb.timeout >= 0
    /\ stdin.buf = <<>>
    /\ Deliver(kb, -ETIMEDOUT)
    /\ UNCHANGED <<last, stdin>>
    /\ KbUnchanged

\* After ESC: poll(&mFds, 1, 1) reports more input.
KbEscPollReady ==
    /\ kb.pc = "escpoll"
    /\ stdin.buf # <<>>
    /\ Deliver(kb, KEY_ESC_SEQ)
    /\ UNCHANGED <<last, stdin>>
    /\ KbUnchanged

\* After ESC: nothing within the millisecond.
KbEscPollTimeout ==
    /\ kb.pc = "escpoll"
    /\ stdin.buf = <<>>
    /\ Deliver(kb, KEY_ESC)
    /\ UNCHANGED <<last, stdin>>
    /\ KbUnchanged

\* poll() fails (rc < 0).
KbPollError ==
    /\ kb.pc \in {"poll", "escpoll"}
    /\ Deliver(kb, -1)
    /\ UNCHANGED <<last, stdin>>
    /\ KbUnchanged

\* The terminal delivers the next byte.
KbArrive ==
    /\ stdin.later # <<>>
    /\ stdin' = [buf |-> Append(stdin.buf, Head(stdin.later)), later |-> Tail(stdin.later)]
    /\ UNCHANGED <<kb, ret, last>>
    /\ KbUnchanged

NextKeyboard ==
    \/ KbWaitForKey
    \/ KbPollRead
    \/ KbPollTimeout
    \/ KbEscPollReady
    \/ KbEscPollTimeout
    \/ KbPollError
    \/ KbArrive

SpecKeyboard == InitKeyboard /\ [][NextKeyboard]_vars

\* The call makes progress whenever poll() can return, and bytes in flight
\* arrive; a failing poll() is possible but never required.
SpecKeyboardLive ==
    /\ SpecKeyboard
    /\ WF_vars(KbPollRead)
    /\ WF_vars(KbPollTimeout)
    /\ WF_vars(KbEscPollReady)
    /\ WF_vars(KbEscPollTimeout)
    /\ WF_vars(KbArrive)

KeyTyped == CHOOSE t \in pending : TRUE

\* C23: a waitForKey() call with a timeout >= 0 eventually returns, whatever
\* the input stream, also one that stops after ESC '[' or ESC 'O'.
C23_WaitForKeyReturns ==
    (kb.pc # "idle" /\ last.timeout >= 0) ~> (kb.pc = "idle")


(***************************************************************************)
(* C24.  Key decoding arithmetic.                                          *)
(***************************************************************************)
\* base + m * 1000 for a modifier m in 1..8, base for m = 0 (no modifier
\* parameter, or the value 0), KEY_UNKNOWN for any other m.
WithModifier(base, m) ==
    IF m = 0
    THEN base
    ELSE IF m >= 1 /\ m <= 8
    THEN base + m * 1000
    ELSE KEY_UNKNOWN

\* The key a typed sequence stands for: the modifier is the second
\* parameter of a '~' sequence and the last parameter of the others.
KeyFor(t) ==
    IF ~t.esc
    THEN t.intro
    ELSE IF t.intro = Null
    THEN KEY_ESC
    ELSE IF t.intro \notin {Ch_LBracket, Ch_O}
    THEN t.intro + MOD_ALT
    ELSE IF t.final = Ch_Tilde
    THEN IF t.params = <<>> \/ t.params[1] \notin DOMAIN TildeBase
         THEN KEY_UNKNOWN
         ELSE WithModifier(TildeBase[t.params[1]],
                           IF Len(t.params) = 2 THEN t.params[2] ELSE 0)
    ELSE IF t.final \in DOMAIN LetterKeys
    THEN WithModifier(LetterKeys[t.final],
                      IF t.params = <<>> THEN 0 ELSE Back(t.params))
    ELSE KEY_UNKNOWN

\* A waitForKey() call has returned after reading exactly what was typed, a
\* whole sequence with at most two parameters.
DecodedWhole ==
    /\ kb.pc = "idle"
    /\ last.op = "waitForKey"
    /\ kb.read = Bytes(KeyTyped)
    /\ ret >= 0
    /\ KeyTyped.intro \in {Ch_LBracket, Ch_O} => KeyTyped.final # Null
    /\ Len(KeyTyped.params) <= 2

\* C24: waitForKey() returns, for ESC [ params final and ESC O params final,
\* base + m * 1000 with base selected by the final byte (and the first
\* parameter for '~') and m the modifier parameter in 1..8 (0 when absent or
\* given as 0), KEY_UNKNOWN for a modifier out of range or an unmapped
\* final; for ESC and another byte k, k + MOD_ALT; for ESC alone, KEY_ESC.
C24_KeyDecoding == DecodedWhole => ret = KeyFor(KeyTyped)


(***************************************************************************)
(* The Screen projection.  What is written to cout is a sequence of        *)
(* tokens: Sgr(n) for ESC[<n>m, Fg(c) for ESC[38;5;<c>m, Bg(c) for         *)
(* ESC[48;5;<c>m, Goto(y, x) for ESC[<y>;<x>H and Glyph(v) for a character. *)
(***************************************************************************)
bold == 1
underscore == 2
blink == 4
reverse == 8
red == 1

\* The character with code 0, and a control character.
NUL == "NUL"
TAB == "TAB"

Token(k, v, y, x) == [k |-> k, v |-> v, y |-> y, x |-> x]
Sgr(n) == Token("sgr", "", n, 0)
Fg(c) == Token("fg", "", c, 0)
Bg(c) == Token("bg", "", c, 0)
Goto(y, x) == Token("goto", "", y, x)
Glyph(v) == Token("glyph", v, 0, 0)

\* ch.attr & bit
HasAttr(ch, bit) == (ch.attr \div bit) % 2 = 1

isprint(v) == v \notin {NUL, TAB}

\* Screen::drawChar: the new mCurrentAttr and the tokens written.
drawChar(cur, ch) ==
    LET reset == ch.attr # cur.attr \/ cur.val = NUL
        t1 == IF reset
              THEN <<Sgr(0)>>
                   \o (IF HasAttr(ch, bold) THEN <<Sgr(1)>> ELSE <<>>)
                   \o (IF HasAttr(ch, underscore) THEN <<Sgr(4)>> ELSE <<>>)
                   \o (IF HasAttr(ch, blink) THEN <<Sgr(5)>> ELSE <<>>)
                   \o (IF HasAttr(ch, reverse) THEN <<Sgr(7)>> ELSE <<>>)
              ELSE <<>>
        c2 == reset \/ ch.fg # cur.fg
        t2 == IF c2 THEN <<Fg(ch.fg)>> ELSE <<>>
        c3 == c2 \/ ch.bg # cur.bg
        t3 == IF c3 THEN <<Bg(ch.bg)>> ELSE <<>>
    IN  [cur |-> IF c3 THEN ch ELSE cur,
         out |-> t1 \o t2 \o t3 \o <<Glyph(IF isprint(ch.val) THEN ch.val ELSE " ")>>]

\* buf[offset]; an offset outside the buffer reads whatever is there (g).
BufAt(buf, offset, g) == IF offset \in DOMAIN buf THEN buf[offset] ELSE g

\* The inner loop of Screen::renderDone: n cells from offset on.
RECURSIVE DrawRow(_, _, _, _, _)
DrawRow(cur, buf, offset, n, g) ==
    IF n <= 0
    THEN [cur |-> cur, out |-> <<>>]
    ELSE LET d    == drawChar(cur, BufAt(buf, offset, g))
             rest == DrawRow(d.cur, buf, offset + 1, n - 1, g)
         IN  [cur |-> rest.cur, out |-> d.out \o rest.out]

\* The outer loop of Screen::renderDone: rows y .. y_cnt - 1 (1-based).
RECURSIVE DrawRows(_, _, _, _, _, _)
DrawRows(scr, buf, dirty, y, y_cnt, g) ==
    IF y >= y_cnt
    THEN [cur |-> scr.mCurrentAttr, out |-> <<>>]
    ELSE LET x      == dirty.top.x + 1
             offset == index_for(scr.mBounds, Point(x - 1, y - 1))
             row    == DrawRow(scr.mCurrentAttr, buf, offset, width(dirty), g)
             rest   == DrawRows([scr EXCEPT !.mCurrentAttr = row.cur], buf, dirty, y + 1, y_cnt, g)
         IN  [cur |-> rest.cur, out |-> <<Goto(y, x)>> \o row.out \o rest.out]

\* Screen::renderDone: the Screen after the call and the tokens written.
Screen_renderDone(scr, buf, dirty, g) ==
    LET y     == dirty.top.y + 1
        start == [scr EXCEPT !.mCurrentAttr = Char(NUL, 0, 0, 0)]
        r     == DrawRows(start, buf, dirty, y, y + height(dirty), g)
    IN  [screen |-> [start EXCEPT !.mCurrentAttr = r.cur], out |-> r.out]


(***************************************************************************)
(* SpecScreen: the Screen (surface Root) of a 2x2 terminal, created by a   *)
(* successful Screen::getInstance(), and one 2x1 surface that is filled    *)
(* cell by cell with differently styled characters, added to the Screen,   *)
(* moved between its two rows and rendered; the Screen's renderDone()      *)
(* writes the projection.                                                  *)
(***************************************************************************)
ScreenSize == <<2, 2>>

ScreenSizes == <<ScreenSize, <<2, 1>>>> @@ [s \in Surfaces |-> <<1, 1>>]

CharNul == Char(NUL, white, black, none)
CharRedB == Char("b", red, black, none)

CharBoldA == Char("a", white, black, bold + underscore)

ScreenChars == {CharA, CharNul, CharRedB, CharBoldA}

ScreenCrops == {EmptyRect, Rect(0, 0, 1, 1), Rect(1, 0, 2, 1)}

ScreenRows == {Point(0, 0), Point(0, 1)}

\* Screen(width, height): the Surface of that size, Screen::mBounds as
\* resize() sets it.
Screen_Screen(scr, w, h) == [scr EXCEPT !.mBounds = Rect(0, 0, w, h)]

\* The sizes the terminal may have: as at the start, and narrower.
TermSizes == {<<1, 2>>, ScreenSize}

\* Screen::resize(), the terminal being width x height; ioctl is the result
\* of the size query.
Screen_resize(W, scr, w, h, ioctl) ==
    IF ioctl # 0
    THEN [r |-> Result(W, ioctl), screen |-> scr]
    ELSE [r |-> Result(resize(W, Root, w, h).w, 0),
          screen |-> [scr EXCEPT !.mBounds = Rect(0, 0, w, h)]]

\* Screen::clear(): the whole Screen is invalidated.
Screen_clear(W) == invalidateAll(W, Root)

ScreenReady ==
    [NoInstance EXCEPT !.Screen = [ptr |-> PtrOf("Screen"), init |-> Range(ScreenSteps)]]

InitScreen ==
    /\ mBounds = Construct(NewWorld, ScreenSizes, 1).mBounds
    /\ mDirty = Construct(NewWorld, ScreenSizes, 1).mDirty
    /\ mPos = NewWorld.mPos
    /\ mVisible = NewWorld.mVisible
    /\ mParent = NewWorld.mParent
    /\ mData = Construct(NewWorld, ScreenSizes, 1).mData
    /\ mLayerMap = NewWorld.mLayerMap
    /\ pc = "idle"
    /\ stack = <<>>
    /\ ret = 0
    /\ last = NoCall
    /\ hookLog = <<>>
    /\ pending = {}
    /\ acc = {}
    /\ phase = "free"
    /\ instance = ScreenReady
    /\ screen = [Screen_Screen(NewScreen, ScreenSize[1], ScreenSize[2]) EXCEPT !.mWinchFd = 3]
    /\ out = <<>>
    /\ stdin = NoInput
    /\ kb = KbIdle

ScrFill ==
    /\ \E pattern \in ScreenChars, crop \in ScreenCrops : Fill(Leaf, pattern, crop)
    /\ Free

ScrAddLayer == (\E pos \in ScreenRows : Screen_addLayer(Leaf, pos)) /\ Free

ScrMove == (\E pos \in ScreenRows : Move(Leaf, pos)) /\ Free

\* A call of a Screen method that writes to the terminal or changes the
\* Screen's own fields.
ScreenCall(op, r, scr, written) ==
    /\ pc = "idle"
    /\ SetWorld(r.w)
    /\ ret' = r.ret
    /\ last' = [op |-> op, rsf |-> Null, rep |-> FALSE]
    /\ hookLog' = <<>>
    /\ screen' = scr
    /\ out' = written
    /\ UNCHANGED <<pc, stack, instance, stdin, kb>>

\* The terminal is resized by its user at any time; Screen::resize() is
\* called afterwards, and the size query may fail.
ScrResize ==
    /\ \E sz \in TermSizes, ioctl \in {0, -1} :
          ScreenCall("Screen_resize", Screen_resize(World, screen, sz[1], sz[2], ioctl).r,
                     Screen_resize(World, screen, sz[1], sz[2], ioctl).screen, out)
    /\ Free

ScrClear ==
    /\ ScreenCall("Screen_clear", Result(Screen_clear(World), 0), screen,
                  <<Sgr(0), Token("clear", "", 0, 0), Goto(1, 1)>>)
    /\ Free

ScrRender == Render(Leaf) /\ Free

\* renderDone() of a plain Surface.
ScrRenderDone == pc = "exit" /\ Top # Root /\ RenderDone /\ Free

\* render() of the Screen reaches Screen::renderDone().
ScreenRenderDone ==
    /\ pc = "exit"
    /\ Top = Root
    /\ hookLog' = Append(hookLog, renderHook(World, Top))
    /\ SetWorld(renderClean(World, Top))
    /\ Pop
    /\ \E g \in ScreenChars :
          /\ screen' = Screen_renderDone(screen, mData[Root], mDirty[Root], g).screen
          /\ out' = Screen_renderDone(screen, mData[Root], mDirty[Root], g).out
    /\ UNCHANGED <<ret, last, instance, stdin, kb>>
    /\ Free

NextScreen ==
    \/ ScrFill
    \/ ScrAddLayer
    \/ ScrMove
    \/ ScrResize
    \/ ScrClear
    \/ ScrRender
    \/ CompRenderNothing
    \/ CompRenderCompose
    \/ ScrRenderDone
    \/ ScreenRenderDone

SpecScreen == InitScreen /\ [][NextScreen]_vars

\* The rectangle of the projection just written, if any.
Projected == \E k \in DOMAIN hookLog : hookLog[k].sf = Root

ProjDirty == hookLog[CHOOSE k \in DOMAIN hookLog : hookLog[k].sf = Root].dirty

\* The projected rectangle lies inside the Screen's buffer.
ProjInside == intersect(mBounds[Root], ProjDirty) = ProjDirty

\* The j-th cell (from 0) of the projected rectangle, in row-major order.
ProjCell(j) == mData[Root][index_for(mBounds[Root], point_for(ProjDirty, j))]

\* The position in out of the j-th glyph (from 0).
GlyphAt(j) ==
    CHOOSE i \in DOMAIN out :
        /\ out[i].k = "glyph"
        /\ Cardinality({h \in 1..(i - 1) : out[h].k = "glyph"}) = j

SameStyle(c1, c2) == c1.attr = c2.attr /\ c1.fg = c2.fg /\ c1.bg = c2.bg

RowsOf(cells) == {p.y : p \in cells}

\* The smallest rectangle covering cells, widened to the full width w when
\* the cells lie in more than one row.
RangeSpan(cells, w) ==
    LET ys == RowsOf(cells)
        xs == {p.x : p \in cells}
        y0 == CHOOSE y \in ys : \A z \in ys : y <= z
        y1 == CHOOSE y \in ys : \A z \in ys : y >= z
        x0 == CHOOSE x \in xs : \A z \in xs : x <= z
        x1 == CHOOSE x \in xs : \A z \in xs : x >= z
    IN  IF Cardinality(ys) = 1
        THEN Rect(x0, y0, x1 + 1, y0 + 1)
        ELSE Rect(0, y0, w, y1 + 1)

BucketsWellFormed(W) ==
    /\ \A c \in Surfaces :
          W.mParent[c] # Null =>
              Cardinality(BucketsOf(W.mLayerMap[W.mParent[c]], c)) = 1
    /\ \A s \in Surfaces : \A z \in DOMAIN W.mLayerMap[s] : W.mLayerMap[s][z] # {}

InBucket(W, self, sf, Z) == Z \in DOMAIN W.mLayerMap[self] /\ sf \in W.mLayerMap[self][Z]

\* C34: in every state reached by addLayer, removeLayer, moveLayer,
\* move(pos, Z) and moveZ calls, every attached child is in exactly one
\* Z-bucket of its parent and no bucket is empty; and whichever successful
\* moveLayer(sf, Z) or moveZ(Z) is called next, it leaves the surface in
\* bucket Z, also when Z is its current Z and it is alone in that bucket.
C34_ZBuckets ==
    /\ BucketsWellFormed(World)
    /\ \A self \in Surfaces, sf \in Surfaces, Z \in ZRange :
          moveLayer(World, self, sf, Z).ret = 0 =>
              /\ InBucket(moveLayer(World, self, sf, Z).w, self, sf, Z)
              /\ BucketsWellFormed(moveLayer(World, self, sf, Z).w)
    /\ \A s \in Surfaces, Z \in ZRange :
          moveZ(World, s, Z).ret = 0 =>
              /\ InBucket(moveZ(World, s, Z).w, mParent[s], s, Z)
              /\ BucketsWellFormed(moveZ(World, s, Z).w)

\* After a successful moveLayer or moveZ a parent has two buckets, one of
\* them holding a single surface.
C34_Witness ==
    /\ last.op \in {"moveLayer", "moveZ"}
    /\ ret = 0
    /\ \E p \in Surfaces :
          /\ Cardinality(DOMAIN mLayerMap[p]) = 2
          /\ \E z \in DOMAIN mLayerMap[p] : Cardinality(mLayerMap[p][z]) = 1


(***************************************************************************)
(* The projection and the buffer in SpecScreen.                            *)
(***************************************************************************)
\* The buffer indexes Screen::renderDone reads for the rectangle dirty:
\* from the offset of each row's first cell, width(dirty) cells.
ReadIndexes(scr, dirty) ==
    {index_for(scr.mBounds, Point(dirty.top.x, y)) + k :
        y \in dirty.top.y..(dirty.bottom.y - 1), k \in 0..(width(dirty) - 1)}

DefaultColour == -1

TermStart == [cur |-> Point(1, 1), attrs |-> {}, fg |-> DefaultColour, bg |-> DefaultColour,
              shown |-> <<>>]

TermStep(t, tok) ==
    CASE tok.k = "goto"  -> [t EXCEPT !.cur = Point(tok.x, tok.y)]
      [] tok.k = "sgr"   -> IF tok.y = 0
                            THEN [t EXCEPT !.attrs = {}, !.fg = DefaultColour, !.bg = DefaultColour]
                            ELSE [t EXCEPT !.attrs = t.attrs \cup {tok.y}]
      [] tok.k = "fg"    -> [t EXCEPT !.fg = tok.y]
      [] tok.k = "bg"    -> [t EXCEPT !.bg = tok.y]
      [] tok.k = "glyph" -> [t EXCEPT !.cur = Point(t.cur.x + 1, t.cur.y),
                                      !.shown = (t.cur :> [val |-> tok.v, attrs |-> t.attrs,
                                                           fg |-> t.fg, bg |-> t.bg]) @@ t.shown]
      [] OTHER           -> t

RECURSIVE Terminal(_, _)
Terminal(t, tokens) ==
    IF tokens = <<>> THEN t ELSE Terminal(TermStep(t, Head(tokens)), Tail(tokens))

\* What a terminal has to show for the buffer cell ch.
Displayed(ch) ==
    [val   |-> IF ch.val \in {NUL, TAB} THEN " " ELSE ch.val,
     attrs |-> {n \in {1, 4, 5, 7} :
                   \/ n = 1 /\ HasAttr(ch, bold)
                   \/ n = 4 /\ HasAttr(ch, underscore)
                   \/ n = 5 /\ HasAttr(ch, blink)
                   \/ n = 7 /\ HasAttr(ch, reverse)},
     fg    |-> ch.fg,
     bg    |-> ch.bg]

\* The positions in out of the cursor-position sequences.
Gotos == {i \in DOMAIN out : out[i].k = "goto"}

\* The number of glyphs from position i up to the next cursor-position
\* sequence or the end of out.
GlyphsAfter(i) ==
    Cardinality({h \in (i + 1)..Len(out) :
                    /\ out[h].k = "glyph"
                    /\ \A g \in Gotos : ~(i < g /\ g < h)})

====
